---- MODULE Spec2Model ----
(***************************************************************************)
(* Model of the Qucs netlist checker, qucs-core/src/check_netlist.cpp:     *)
(* the semantic checks of a parsed netlist (netlist_checker_intern,        *)
(* checker_validate_actions), the detection of cyclic subcircuit           *)
(* definitions (checker_validate_sub_cycles) and the expansion of          *)
(* subcircuit instances into the global netlist                            *)
(* (checker_expand_subcircuits).                                           *)
(*                                                                         *)
(* A netlist is a sequence of definitions (struct definition_t); the       *)
(* linked lists of the code are sequences here, a NULL pointer is Nil.     *)
(* Names are strings and are built as the code builds them (sprintf with   *)
(* "." separators), so that generated names can collide or not as they do  *)
(* in the program.                                                         *)
(***************************************************************************)
EXTENDS Integers, Sequences, FiniteSets, TLC

VARIABLES
  definition_root,     \* the global netlist (definition_root)
  subcircuit_root,     \* the list of subcircuit templates (subcircuit_root)
  checker_sub_cycles,  \* the static flag of line 415
  errors,              \* the local 'errors' of netlist_checker
  pc,                  \* position inside netlist_checker
  idx,                 \* loop position of the loop of lines 1608-1610
  result,              \* the value returned by netlist_checker, Nil before
  released,            \* history: the chains of pairs released, in order
  phase,               \* history: the error count of each phase, in order
  input                \* history: the netlist as handed over by the parser

vars == <<definition_root, subcircuit_root, checker_sub_cycles, errors, pc,
          idx, result, released, phase, input>>

Nil == "<NULL>"

-----------------------------------------------------------------------------
(* Bounds of the explored inputs.                                          *)

\* most Sub statements over all template bodies of a generated graph
MaxEdges == 2
\* most Sub statements in a generated top-level list
MaxTop == 2
\* the largest number of DC actions of a netlist
MaxDC == 2
\* most S-parameter ports in a generated top-level list
MaxPorts == 2
\* most statements of a generated list of repeated statements
MaxLen == 4
\* most nodes of a generated statement
MaxNodes == 3
\* most properties of a generated statement
MaxPairs == 3
\* most values of a generated list of values
MaxValues == 2
\* most parameter sweeps of a generated cycle
MaxCycle == 3
\* most parameter sweeps that lead into a generated cycle
MaxLead == 2

-----------------------------------------------------------------------------
(* Sequence helpers.                                                       *)

RECURSIVE SumSeq(_)
SumSeq(s) == IF s = <<>> THEN 0 ELSE Head(s) + SumSeq(Tail(s))

RECURSIVE Reverse(_)
Reverse(s) == IF s = <<>> THEN <<>> ELSE Reverse(Tail(s)) \o <<Head(s)>>

RECURSIVE Flatten(_)
Flatten(ss) == IF ss = <<>> THEN <<>> ELSE Head(ss) \o Flatten(Tail(ss))

Range(s) == {s[i] : i \in 1..Len(s)}

-----------------------------------------------------------------------------
(* The data model: struct node_t, value_t, pair_t, definition_t.           *)

\* a node of a definition: its name, and the translation set during expansion
Node(n) == [node |-> n, xlate |-> Nil, xlatenr |-> 0]

Nodes(names) == [i \in 1..Len(names) |-> Node(names[i])]

\* a double as far as the checks look at it: m * 10^e, and after the
\* conversion from decibels 10^((m * 10^e) / 10) * 10^f
Number(m) == [m |-> m, e |-> 0, db |-> FALSE, f |-> 0]

\* a property value (struct value_t) that is an identifier / a number / a
\* number followed by the letters of scale and unit; a sequence of letters
\* stands for a string, the empty sequence for NULL
IdentValue(id) ==
  [ident |-> id, value |-> Number(0), scale |-> <<>>, unit |-> <<>>]
NumValue(v) ==
  [ident |-> Nil, value |-> Number(v), scale |-> <<>>, unit |-> <<>>]
ScaledValue(v, letters) ==
  [ident |-> Nil, value |-> Number(v), scale |-> letters, unit |-> <<>>]

\* a property: key and its chain of values (value, value->next, ...)
Pair(k, vals) == [key |-> k, values |-> vals]

\* a definition as the parser leaves it: annotations are zero (calloc).
\* chain stands for the address held by the pointer 'pairs': two
\* definitions with the same chain share one chain of pairs.
Definition(t, inst, act, names, prs, body) ==
  [type |-> t, instance |-> inst, action |-> act, nodes |-> Nodes(names),
   pairs |-> prs, sub |-> body, nonlinear |-> 0, substrate |-> 0,
   nodeset |-> 0, duplicate |-> 0, copy |-> 0, subcircuit |-> Nil,
   chain |-> <<>>]

\* the netlist in memory: every definition holds a chain of pairs of its
\* own, told apart by the place of the definition in the netlist
RECURSIVE Allocated(_, _)
Allocated(list, place) ==
  [i \in 1..Len(list) |->
     [list[i] EXCEPT !.chain = Append(place, i),
                     !.sub = Allocated(list[i].sub, Append(place, i))]]

PROP_ACTION == 1
PROP_COMPONENT == 0
\* the node count of a catalog entry taking any number of nodes
PROP_NODES == -1

\* 10^n for n >= 0
RECURSIVE Pow10(_)
Pow10(n) == IF n <= 0 THEN 1 ELSE 10 * Pow10(n - 1)

\* x * 10^k
Times10(x, k) ==
  IF x.db THEN [x EXCEPT !.f = x.f + k] ELSE [x EXCEPT !.e = x.e + k]

\* pow (10.0, x / 10.0) of a number not yet converted
FromDecibel(x) == [x EXCEPT !.db = TRUE]

\* the decimal m * 10^e that a number is; a number converted from decibels
\* is one when it was a whole multiple of 10, and is not compared otherwise
Decimal(x) ==
  IF ~x.db THEN x
  ELSE [m  |-> 1,
        e  |-> x.f + (CHOOSE k \in {(x.m * Pow10(x.e)) \div 10} :
                        x.e >= 0 /\ 10 * k = x.m * Pow10(x.e)),
        db |-> FALSE,
        f  |-> 0]

\* the decimal x as a multiple of 10^e, e <= x.e
Mantissa(x, e) == x.m * Pow10(x.e - e)

MinExp(x, y) == IF x.e < y.e THEN x.e ELSE y.e

LessDecimal(x, y) == Mantissa(x, MinExp(x, y)) < Mantissa(y, MinExp(x, y))

\* x < y
Less(x, y) == LessDecimal(Decimal(x), Decimal(y))

FractionOfDecimal(x) == IF x.e >= 0 THEN 0 ELSE x.m % Pow10(0 - x.e)

\* modf (x, &integral) != 0
HasFraction(x) == FractionOfDecimal(Decimal(x)) # 0

TruncDecimal(x) ==
  IF x.e >= 0 THEN x.m * Pow10(x.e)
  ELSE IF x.m >= 0 THEN x.m \div Pow10(0 - x.e)
  ELSE 0 - ((0 - x.m) \div Pow10(0 - x.e))

\* (int) x
Trunc(x) == TruncDecimal(Decimal(x))

-----------------------------------------------------------------------------
(* The catalog of definition types (qucs_definition_available of           *)
(* qucsdefs.h) and the tables of this file.                                *)

\* a property descriptor (struct property_t): PROP_IS_VAL, PROP_IS_INT,
\* PROP_IS_LST, PROP_HAS_RANGE and the range
Property(k, isVal, isInt, isLst, hasRange, l, h) ==
  [key |-> k, val |-> isVal, int |-> isInt, lst |-> isLst,
   hasRange |-> hasRange, l |-> l, h |-> h]

\* a catalog entry (struct define_t)
Define(t, n, act, nonlin, req, opt) ==
  [type |-> t, nodes |-> n, action |-> act, substrate |-> 0,
   nonlinear |-> nonlin, required |-> req, optional |-> opt]

\* an entry of a type that carries a substrate
WithSubstrate(define) == [define EXCEPT !.substrate = 1]

\* the optional properties of the swept actions
SweepProperties ==
  <<Property("Start", TRUE, FALSE, FALSE, FALSE, 0, 0),
    Property("Stop", TRUE, FALSE, FALSE, FALSE, 0, 0),
    Property("Points", TRUE, TRUE, FALSE, TRUE, 2, 10000),
    Property("Values", TRUE, FALSE, TRUE, FALSE, 0, 0)>>

qucs_definition_available ==
  << Define("R", 2, PROP_COMPONENT, 0,
            <<Property("R", TRUE, FALSE, FALSE, FALSE, 0, 0)>>,
            <<Property("Temp", TRUE, FALSE, FALSE, FALSE, 0, 0)>>),
     Define("Sub", PROP_NODES, PROP_COMPONENT, 0,
            <<Property("Type", FALSE, FALSE, FALSE, FALSE, 0, 0)>>, <<>>),
     Define("Def", PROP_NODES, PROP_ACTION, 0, <<>>, <<>>),
     Define("DC", 0, PROP_ACTION, 0, <<>>,
            <<Property("MaxIter", TRUE, TRUE, FALSE, TRUE, 2, 10000)>>),
     Define("Diode", 2, PROP_COMPONENT, 1,
            <<Property("Is", TRUE, FALSE, FALSE, FALSE, 0, 0)>>, <<>>),
     Define("Pac", 2, PROP_COMPONENT, 0,
            <<Property("Num", TRUE, TRUE, FALSE, TRUE, 1, 512)>>,
            <<Property("P", TRUE, FALSE, FALSE, FALSE, 0, 0)>>),
     Define("AC", 0, PROP_ACTION, 0,
            <<Property("Type", FALSE, FALSE, FALSE, FALSE, 0, 0)>>,
            SweepProperties),
     Define("SP", 0, PROP_ACTION, 0,
            <<Property("Type", FALSE, FALSE, FALSE, FALSE, 0, 0)>>,
            SweepProperties),
     Define("SW", 0, PROP_ACTION, 0,
            <<Property("Type", FALSE, FALSE, FALSE, FALSE, 0, 0),
              Property("Param", FALSE, FALSE, FALSE, FALSE, 0, 0),
              Property("Sim", FALSE, FALSE, FALSE, FALSE, 0, 0)>>,
            SweepProperties),
     Define("SPfile", PROP_NODES, PROP_COMPONENT, 0,
            <<Property("File", FALSE, FALSE, FALSE, FALSE, 0, 0)>>,
            <<Property("Data", FALSE, FALSE, FALSE, FALSE, 0, 0)>>),
     WithSubstrate(
       Define("MLIN", 2, PROP_COMPONENT, 0,
              <<Property("W", TRUE, FALSE, FALSE, FALSE, 0, 0),
                Property("Subst", FALSE, FALSE, FALSE, FALSE, 0, 0)>>,
              <<Property("Model", FALSE, FALSE, FALSE, FALSE, 0, 0)>>)),
     Define("SUBST", 0, PROP_COMPONENT, 0,
            <<Property("er", TRUE, FALSE, FALSE, TRUE, 1, 100)>>, <<>>) >>

\* the microstrip component types
strip_available ==
  <<"MLIN", "MCORN", "MMBEND", "MSTEP", "MOPEN", "MGAP", "MCOUPLED", "MTEE",
    "MCROSS", "MVIA", "CLIN">>

Special(t, k, v) == [type |-> t, key |-> k, value |-> v]

checker_specials ==
  << Special("JFET", "Type", <<"nfet", "pfet">>),
     Special("BJT", "Type", <<"npn", "pnp">>),
     Special("MOSFET", "Type", <<"nfet", "pfet">>),
     Special("SP", "Noise", <<"yes", "no">>),
     Special("SP", "Type", <<"lin", "log", "list", "const">>),
     Special("AC", "Type", <<"lin", "log", "list", "const">>),
     Special("AC", "Noise", <<"yes", "no">>),
     Special("DC", "saveOPs", <<"yes", "no">>),
     Special("DC", "saveAll", <<"yes", "no">>),
     Special("DC", "convHelper",
             <<"none", "SourceStepping", "gMinStepping", "LineSearch",
               "Attenuation", "SteepestDescent">>),
     Special("TR", "Type", <<"lin", "log">>),
     Special("TR", "IntegrationMethod",
             <<"Euler", "Trapezoidal", "Gear", "AdamsMoulton">>),
     Special("MLIN", "DispModel",
             <<"Kirschning", "Kobayashi", "Yamashita", "Getsinger",
               "Schneider", "Pramanick", "Hammerstad">>),
     Special("MLIN", "Model", <<"Wheeler", "Schneider", "Hammerstad">>),
     Special("CLIN", "Backside", <<"Metal", "Air">>),
     Special("SW", "Type", <<"lin", "log", "list", "const">>),
     Special("SPfile", "Data", <<"rectangular", "polar">>),
     Special("MSTEP", "MSDispModel",
             <<"Kirschning", "Kobayashi", "Yamashita", "Getsinger",
               "Schneider", "Pramanick", "Hammerstad">>),
     Special("MSTEP", "MSModel", <<"Wheeler", "Schneider", "Hammerstad">>),
     Special("MOPEN", "MSDispModel",
             <<"Kirschning", "Kobayashi", "Yamashita", "Getsinger",
               "Schneider", "Pramanick", "Hammerstad">>),
     Special("MOPEN", "MSModel", <<"Wheeler", "Schneider", "Hammerstad">>),
     Special("MOPEN", "Model", <<"Kirschning", "Hammerstad", "Alexopoulos">>),
     Special("MGAP", "MSDispModel",
             <<"Kirschning", "Kobayashi", "Yamashita", "Getsinger",
               "Schneider", "Pramanick", "Hammerstad">>),
     Special("MGAP", "MSModel", <<"Wheeler", "Schneider", "Hammerstad">>),
     Special("MCOUPLED", "Model", <<"Kirschning", "Hammerstad">>),
     Special("MCOUPLED", "DispModel", <<"Kirschning", "Getsinger">>) >>

-----------------------------------------------------------------------------
(* Lookups in a definition and in a list of definitions.                   *)

checker_count_nodes(def) == Len(def.nodes)

\* a NULL struct define_t pointer, a NULL struct definition_t pointer and a
\* NULL struct value_t pointer
NoDefine == [type |-> Nil]
NoDefinition == [type |-> Nil, instance |-> Nil]
NoValue == [ident |-> Nil, value |-> 0]

\* the catalog entry of a type, NoDefine when there is none
checker_find_definition(type, action) ==
  LET hits == SelectSeq(qucs_definition_available,
                        LAMBDA d : d.type = type /\ d.action = action)
  IN  IF hits = <<>> THEN NoDefine ELSE Head(hits)

\* how many properties of the pair list carry the key
checker_find_property(key, pairs) ==
  Len(SelectSeq(pairs, LAMBDA p : p.key = key))

checker_is_property(available, key) ==
  \/ \E i \in 1..Len(available.required) : available.required[i].key = key
  \/ \E i \in 1..Len(available.optional) : available.optional[i].key = key

\* the positions of the definitions of the given type and instance
SameDefinition(root, type, instance) ==
  {i \in 1..Len(root) : root[i].type = type /\ root[i].instance = instance}

\* checker_count_definition: the count, and the list with every match after
\* the first marked as duplicate
CountDefinitionCount(root, type, instance) ==
  Cardinality(SameDefinition(root, type, instance))

CountDefinitionMark(root, type, instance) ==
  LET same == SameDefinition(root, type, instance)
  IN  [i \in 1..Len(root) |->
         IF i \in same /\ \E j \in same : j < i
         THEN [root[i] EXCEPT !.duplicate = 1] ELSE root[i]]

\* the value found, Nil otherwise: only the first value of a pair is looked at
checker_find_variable(root, type, key, ident) ==
  IF \E i \in 1..Len(root) : \E j \in 1..Len(root[i].pairs) :
       /\ root[i].type = type
       /\ root[i].pairs[j].key = key
       /\ root[i].pairs[j].values[1].ident # Nil
       /\ ident # Nil
       /\ root[i].pairs[j].values[1].ident = ident
  THEN ident ELSE Nil

\* the first value of the first pair with the key whose value is a reference,
\* NoValue when there is none
checker_find_reference(def, key) ==
  LET hits == SelectSeq(def.pairs,
                LAMBDA p : p.key = key /\ p.values[1].ident # Nil)
  IN  IF hits = <<>> THEN NoValue ELSE Head(hits).values[1]

\* the value chain of the first pair with the key whose value is no reference,
\* the empty chain when there is none
checker_find_prop_value(def, key) ==
  LET hits == SelectSeq(def.pairs,
                LAMBDA p : p.key = key /\ p.values[1].ident = Nil)
  IN  IF hits = <<>> THEN <<>> ELSE Head(hits).values

checker_validate_reference(def, key) == checker_find_reference(def, key)

\* whether the identifier is held by some (type, key) property of the
\* special and is one of the special's values
SpecialListed(root, special, ident) ==
  /\ checker_find_variable(root, special.type, special.key, ident) # Nil
  /\ ident \in Range(special.value)

\* the number of specials that list the identifier, over the specials whose
\* (type, key) holds the identifier somewhere in the list
SpecialsListing(root, specials, ident) ==
  Cardinality({i \in 1..Len(specials) : SpecialListed(root, specials[i], ident)})

checker_validate_special(root, def, ident) ==
  SpecialsListing(root, checker_specials, ident)

SubstrateOf(def, val, ident) ==
  IF /\ def.type \in Range(strip_available)
     /\ val.ident # Nil
     /\ ident # Nil
     /\ val.ident = ident
  THEN val.ident ELSE Nil

checker_find_substrate(def, ident) ==
  SubstrateOf(def, checker_find_reference(def, "Subst"), ident)

\* 1 when the value resolves (or is no identifier), 0 otherwise
checker_resolve_variable(root, def, value) ==
  IF value.ident = Nil THEN 1
  ELSE
    LET found ==
          (IF checker_find_variable(root, "SW", "Param", value.ident) # Nil
           THEN 1 ELSE 0)
        + (IF checker_find_variable(root, "SW", "Sim", value.ident) # Nil
           THEN 1 ELSE 0)
        + (IF checker_find_substrate(def, value.ident) # Nil THEN 1 ELSE 0)
        + (IF checker_find_variable(root, "Sub", "Type", value.ident) # Nil
           THEN 1 ELSE 0)
        + (IF checker_validate_special(root, def, value.ident) # 0
           THEN 1 ELSE 0)
        + (IF checker_find_variable(root, "SPfile", "File", value.ident) # Nil
           THEN 1 ELSE 0)
    IN  IF found = 0 THEN 0 ELSE 1

\* the scale letters of lines 337-356 and the power of ten of each
ScaleLetters == {"T", "G", "M", "k", "m", "u", "n", "p", "f", "a"}

ScaleExponent(c) ==
  CASE c = "T" -> 12 [] c = "G" -> 9 [] c = "M" -> 6 [] c = "k" -> 3
    [] c = "m" -> -3 [] c = "u" -> -6 [] c = "n" -> -9 [] c = "p" -> -12
    [] c = "f" -> -15 [] c = "a" -> -18

Switched(scale, val, exponent) ==
  [scale |-> scale, val |-> val, exponent |-> exponent]

\* a variant that leaves an 'm' after "dB" to the unit
DecibelMilliKept(scale, val) == Switched(scale, val, 0)

\* lines 359-364: after "dB", an 'm' scales by 1e-3
DecibelMilli(scale, val) ==
  IF scale # <<>> /\ Head(scale) = "m" THEN Switched(Tail(scale), val, -3)
  ELSE Switched(scale, val, 0)

\* lines 357-365: after 'd', a 'B' converts the value from decibels
DecibelSwitch(scale, val) ==
  IF scale # <<>> /\ Head(scale) = "B"
  THEN DecibelMilli(Tail(scale), FromDecibel(val))
  ELSE Switched(scale, val, 0)

\* the switch of lines 336-366: what is left of the scale, the value, and
\* the factor as a power of ten
ScaleSwitch(scale, val) ==
  IF scale = <<>> THEN Switched(scale, val, 0)
  ELSE IF Head(scale) \in ScaleLetters
  THEN Switched(Tail(scale), val, ScaleExponent(Head(scale)))
  ELSE IF Head(scale) = "d" THEN DecibelSwitch(Tail(scale), val)
  ELSE Switched(scale, val, 0)

\* lines 367-373: the rest of the scale becomes the unit, the scale is
\* dropped, the value is multiplied by the factor
EvaluatedScale(value, sw) ==
  [value EXCEPT !.unit = IF sw.scale # <<>> THEN sw.scale ELSE value.unit,
                !.scale = <<>>,
                !.value = Times10(sw.val, sw.exponent)]

\* checker_evaluate_scale (value): the value afterwards; the function
\* reports success (1) in every case
checker_evaluate_scale(value) ==
  IF value.scale # <<>>
  THEN EvaluatedScale(value, ScaleSwitch(value.scale, value.value))
  ELSE [value EXCEPT !.value = Times10(value.value, 0)]

\* the number of definitions of the type (of any type when type is Nil)
checker_count_definitions(root, type, action) ==
  Len(SelectSeq(root, LAMBDA d : d.action = action
                                  /\ (type = Nil \/ d.type = type)))

\* the template of the given name, NoDefinition when there is none
checker_find_subcircuit(n) ==
  LET hits == SelectSeq(subcircuit_root,
                        LAMBDA d : n # Nil /\ d.instance = n)
  IN  IF hits = <<>> THEN NoDefinition ELSE Head(hits)

\* the template a Sub instance names, NoDefinition when there is none
checker_get_subcircuit(def) ==
  checker_find_subcircuit(checker_find_reference(def, "Type").ident)

-----------------------------------------------------------------------------
(* Cyclic subcircuit definitions.                                          *)

\* a variant that never restores the copy
RestoreDepsNever(copy, after, error) == after

\* a variant that restores the copy after an error too
RestoreDepsAlways(copy, after, error) == copy

\* lines 1263-1271: the dependencies the caller goes on with after a
\* recursive call: the callee's list after an error, the copy made before the
\* call otherwise
RestoreDeps(copy, after, error) == IF error # 0 THEN after ELSE copy

\* history: the entry of a call for the template 'type' with the
\* dependencies it is handed, and its return with the dependencies it leaves
Entered(type, deps) ==
  [kind |-> "call", type |-> type, deps |-> deps, errors |-> 0]

Left(type, deps, errs) ==
  [kind |-> "return", type |-> type, deps |-> deps, errors |-> errs]

\* lines 1262-1271: the state of the loop after the recursive call gave r
AfterSubCycles(st, ident, r) ==
  [errors  |-> st.errors + r.errors,
   deps    |-> RestoreDeps(st.deps, r.deps, r.errors),
   checked |-> Append(st.checked, ident),
   crash   |-> r.crash,
   trace   |-> st.trace \o r.trace]

\* line 1277: the call returns what the loop counted
SubCyclesReturn(type, st) ==
  [st EXCEPT !.trace = Append(@, Left(type, st.deps, st.errors))]

\* checker_validate_sub_cycles (root, type, instance, deps): the number of
\* errors, the dependencies left in *deps, and whether the call read through
\* the NULL pointer that checker_find_subcircuit returns for a name that is
\* no template (line 1260, sub->instance), which ends the program.
\* SubCyclesLoop is the loop of lines 1248-1275 from position i on, with
\* st = [errors, deps, checked, crash, trace]; SubCyclesInto is its recursive
\* call for the Sub definition naming 'ident', 'sub' the template found.
\* trace is history: the calls and returns so far, in order.
RECURSIVE ValidateSubCycles(_, _, _), SubCyclesLoop(_, _, _, _),
          SubCyclesInto(_, _, _, _, _, _)
ValidateSubCycles(root, type, deps) ==
  IF type \in Range(deps)
  THEN [errors |-> 1, deps |-> deps, checked |-> <<>>, crash |-> FALSE,
        trace |-> <<Entered(type, deps), Left(type, deps, 1)>>]
  ELSE SubCyclesLoop(type, root.sub, 1,
         [errors |-> 0, deps |-> Append(deps, type), checked |-> <<>>,
          crash |-> FALSE, trace |-> <<Entered(type, deps)>>])

SubCyclesInto(type, body, i, st, ident, sub) ==
  IF sub.type = Nil THEN [st EXCEPT !.crash = TRUE]
  ELSE SubCyclesLoop(type, body, i + 1,
         AfterSubCycles(st, ident,
                        ValidateSubCycles(sub, sub.instance, st.deps)))

SubCyclesLoop(type, body, i, st) ==
  IF st.crash THEN st
  ELSE IF i > Len(body) THEN SubCyclesReturn(type, st)
  ELSE IF /\ body[i].type = "Sub"
          /\ checker_find_reference(body[i], "Type").ident # Nil
          /\ checker_find_reference(body[i], "Type").ident
               \notin Range(st.checked)
  THEN SubCyclesInto(type, body, i, st,
         checker_find_reference(body[i], "Type").ident,
         checker_find_subcircuit(checker_find_reference(body[i], "Type").ident))
  ELSE SubCyclesLoop(type, body, i + 1, st)

checker_validate_sub_cycles(root, type, deps) ==
  ValidateSubCycles(root, type, deps)

\* a variant that does not compare the numbers of nodes
AfterSubcircuitAnyNodes(st, def, sub, r) ==
  [errors |-> st.errors + r.errors,
   cycles |-> r.errors,
   crash  |-> r.crash]

\* lines 1305-1320: the state of the loop of checker_validate_subcircuits
\* after the Sub definition 'def' naming the template 'sub', r the result of
\* the cycle check; cycles is the value given to checker_sub_cycles
AfterSubcircuit(st, def, sub, r) ==
  [errors |-> st.errors
              + (IF checker_count_nodes(def) # checker_count_nodes(sub)
                 THEN 1 ELSE 0)
              + r.errors,
   cycles |-> r.errors,
   crash  |-> r.crash]

\* checker_validate_subcircuits from position i on, with
\* st = [errors, cycles, crash]
RECURSIVE ValidateSubcircuitsLoop(_, _, _)
ValidateSubcircuit(root, i, st, def, sub) ==
  IF sub.type = Nil
  THEN ValidateSubcircuitsLoop(root, i + 1, [st EXCEPT !.errors = @ + 1])
  ELSE ValidateSubcircuitsLoop(root, i + 1,
         AfterSubcircuit(st, def, sub,
           checker_validate_sub_cycles(sub, sub.instance, <<>>)))

ValidateSubcircuitsLoop(root, i, st) ==
  IF i > Len(root) \/ st.crash THEN st
  ELSE IF root[i].type # "Sub" THEN ValidateSubcircuitsLoop(root, i + 1, st)
  ELSE ValidateSubcircuit(root, i, st, root[i],
         checker_find_subcircuit(
           checker_validate_reference(root[i], "Type").ident))

checker_validate_subcircuits(root) ==
  ValidateSubcircuitsLoop(root, 1,
    [errors |-> 0, cycles |-> checker_sub_cycles, crash |-> FALSE])

-----------------------------------------------------------------------------
(* The checks of one list of definitions.                                  *)

\* a variant that rejects the ends of the range too
RangeErrorsOpen(pair, prop) ==
  Cardinality({i \in 1..Len(pair.values) :
                 \/ ~Less(Number(prop.l), pair.values[i].value)
                 \/ ~Less(pair.values[i].value, Number(prop.h))})

\* lines 870-879: the values outside of the range of the descriptor
RangeErrors(pair, prop) ==
  Cardinality({i \in 1..Len(pair.values) :
                 \/ Less(pair.values[i].value, Number(prop.l))
                 \/ Less(Number(prop.h), pair.values[i].value)})

\* the number of errors of one property against its descriptor
checker_value_in_prop_range(pair, prop) ==
  IF prop.val
  THEN (IF ~prop.lst /\ Len(pair.values) > 1 THEN 1 ELSE 0)
     + (IF prop.hasRange THEN RangeErrors(pair, prop) ELSE 0)
     + (IF prop.int /\ HasFraction(pair.values[1].value) THEN 1 ELSE 0)
  ELSE (IF pair.values[1].ident = Nil THEN 1 ELSE 0)

\* the errors of a property against the descriptors of its key
PropRangeErrors(pair, props) ==
  SumSeq([i \in 1..Len(props) |->
            IF props[i].key = pair.key
            THEN checker_value_in_prop_range(pair, props[i]) ELSE 0])

\* 0 when some descriptor of the key reports an error, 1 otherwise
checker_value_in_range(def, pair) ==
  IF PropRangeErrors(pair, def.required \o def.optional) # 0 THEN 0 ELSE 1

\* a variant that asks for no more than the nodes of the catalog entry
NodeCountErrorsAtMost(def, available) ==
  IF available.nodes = PROP_NODES
  THEN (IF checker_count_nodes(def) < 1 THEN 1 ELSE 0)
  ELSE (IF available.nodes < checker_count_nodes(def) THEN 1 ELSE 0)

\* lines 1451-1469: the node count against the catalog entry
NodeCountErrors(def, available) ==
  IF available.nodes = PROP_NODES
  THEN (IF checker_count_nodes(def) < 1 THEN 1 ELSE 0)
  ELSE (IF available.nodes # checker_count_nodes(def) THEN 1 ELSE 0)

\* a variant that lets a required property occur more than once
PropertyCountErrorsMissing(def, available) ==
    Cardinality({i \in 1..Len(available.required) :
       checker_find_property(available.required[i].key, def.pairs) < 1})
  + Cardinality({i \in 1..Len(available.optional) :
       checker_find_property(available.optional[i].key, def.pairs) >= 2})

\* lines 1470-1489: required properties once, optional properties at most once
PropertyCountErrors(def, available) ==
    Cardinality({i \in 1..Len(available.required) :
       checker_find_property(available.required[i].key, def.pairs) # 1})
  + Cardinality({i \in 1..Len(available.optional) :
       checker_find_property(available.optional[i].key, def.pairs) >= 2})

\* line 1501: the property with the scale of its first value evaluated
ScaleEvaluated(pair) ==
  [pair EXCEPT !.values[1] = checker_evaluate_scale(pair.values[1])]

\* lines 1491-1510: the errors of one property of a definition;
\* checker_evaluate_scale reports success and counts nothing
PairErrors(root, def, available, pair) ==
    (IF ~checker_is_property(available, pair.key) THEN 1 ELSE 0)
  + (IF checker_value_in_range(available, ScaleEvaluated(pair)) = 0
     THEN 1 ELSE 0)
  + (IF checker_resolve_variable(root, def, pair.values[1]) = 0 THEN 1 ELSE 0)

\* lines 1436-1511: the errors of one definition against its catalog entry
CatalogErrors(root, def, available) ==
  IF available.type = Nil THEN 1
  ELSE NodeCountErrors(def, available)
     + PropertyCountErrors(def, available)
     + SumSeq([j \in 1..Len(def.pairs) |->
                 PairErrors(root, def, available, def.pairs[j])])

DefinitionErrors(root, def) ==
  CatalogErrors(root, def, checker_find_definition(def.type, def.action))

\* lines 1444-1450 and 1501: the annotations taken from the catalog entry,
\* and the scales evaluated on the way through the properties
AnnotateFrom(def, available) ==
  IF available.type = Nil THEN def
  ELSE [def EXCEPT !.nodeset = IF def.type = "NodeSet" THEN 1 ELSE 0,
                   !.nonlinear = available.nonlinear,
                   !.substrate = available.substrate,
                   !.pairs = [j \in 1..Len(def.pairs) |->
                                ScaleEvaluated(def.pairs[j])]]

Annotate(def) ==
  AnnotateFrom(def, checker_find_definition(def.type, def.action))

\* a variant that reports at every definition of a group
DuplicateErrorsEach(marked, i, n) == IF n # 1 THEN 1 ELSE 0

\* lines 1513-1518: the duplicate definition error of the definition at i,
\* n the count and 'marked' the list after checker_count_definition
DuplicateErrors(marked, i, n) ==
  IF n # 1 /\ marked[i].duplicate = 0 THEN 1 ELSE 0

\* the loop of lines 1433-1519 from position i on: the list as annotated and
\* marked, and the number of errors
RECURSIVE InternLoop(_, _, _)
InternMarked(marked, i, errs, n) ==
  InternLoop(marked, i + 1, errs + DuplicateErrors(marked, i, n))

InternNoted(noted, i, errs) ==
  InternMarked(
    CountDefinitionMark(noted, noted[i].type, noted[i].instance), i, errs,
    CountDefinitionCount(noted, noted[i].type, noted[i].instance))

InternLoop(root, i, errs) ==
  IF i > Len(root) THEN [root |-> root, errors |-> errs]
  ELSE InternNoted([root EXCEPT ![i] = Annotate(root[i])], i,
                   errs + DefinitionErrors(root, root[i]))

\* checker_validate_strips: a microstrip component needs a Subst reference
\* naming exactly one SUBST definition
checker_validate_strips(root) ==
  Cardinality({i \in 1..Len(root) :
    /\ root[i].action = 0
    /\ root[i].type \in Range(strip_available)
    /\ \/ checker_validate_reference(root[i], "Subst").ident = Nil
       \/ CountDefinitionCount(root, "SUBST",
            checker_validate_reference(root[i], "Subst").ident) # 1})

\* checker_count_nodes (root, n): how often the components name the node
CountNodeUses(root, node) ==
  SumSeq([k \in 1..Len(root) |->
            IF root[k].action = 0 /\ root[k].nodeset = 0
            THEN Cardinality({m \in 1..Len(root[k].nodes) :
                                root[k].nodes[m].node = node})
            ELSE 0])

\* checker_count_nodesets (root, n): the positions of the nodesets of the
\* node that are not marked as duplicates
NodesetsOf(root, node) ==
  {k \in 1..Len(root) : /\ root[k].nodeset = 1
                        /\ root[k].duplicate = 0
                        /\ root[k].nodes[1].node = node}

\* the list with every nodeset of 'sets' after the first marked as duplicate
MarkNodesets(root, sets) ==
  [k \in 1..Len(root) |->
     IF k \in sets /\ \E m \in sets : m < k
     THEN [root[k] EXCEPT !.duplicate = 1] ELSE root[k]]

\* lines 765-779: the nodeset definition at position i naming 'node'
NodesetChecked(st, node, sets) ==
  [root   |-> MarkNodesets(st.root, sets),
   errors |-> st.errors
              + (IF CountNodeUses(st.root, node) <= 0 THEN 1 ELSE 0)
              + (IF Cardinality(sets) > 1 THEN 1 ELSE 0)]

\* checker_validate_nodesets from position i on, with st = [root, errors]
RECURSIVE NodesetsLoop(_, _)
NodesetsLoop(st, i) ==
  IF i > Len(st.root) THEN st
  ELSE IF st.root[i].nodeset = 1 /\ checker_count_nodes(st.root[i]) = 1
  THEN NodesetsLoop(
         NodesetChecked(st, st.root[i].nodes[1].node,
                        NodesetsOf(st.root, st.root[i].nodes[1].node)),
         i + 1)
  ELSE NodesetsLoop(st, i + 1)

checker_validate_nodesets(root) == NodesetsLoop([root |-> root, errors |-> 0], 1)

\* lines 1520-1526: the result of netlist_checker_intern from the results
\* of its loop and of the checks that follow it
InternResult(loop, strips, subs, sets) ==
  [root   |-> sets.root,
   errors |-> loop.errors + strips + subs.errors + sets.errors,
   cycles |-> subs.cycles,
   crash  |-> subs.crash]

InternChecks(loop) ==
  InternResult(loop, checker_validate_strips(loop.root),
               checker_validate_subcircuits(loop.root),
               checker_validate_nodesets(loop.root))

\* netlist_checker_intern (root): the list as annotated, the number of
\* errors, the value left in checker_sub_cycles, and whether the cycle
\* check ended the program
netlist_checker_intern(root) == InternChecks(InternLoop(root, 1, 0))

-----------------------------------------------------------------------------
(* The checks of the actions of the global netlist.                        *)

\* checker_count_nonlinearities (root), entered at nesting depth 'depth'
\* (the number of template bodies the call is inside of).  The recursion
\* into a template body is decided by checker_sub_cycles alone, which does
\* not change during the count; a nesting deeper than the number of
\* templates therefore repeats a template and never ends: overflow.
RECURSIVE CountNonlinearities(_, _), CountInto(_, _, _)
CountNonlinearities(root, depth) ==
  IF depth > Len(subcircuit_root) THEN [count |-> 0, overflow |-> TRUE]
  ELSE [count    |-> SumSeq([i \in 1..Len(root) |->
                       (IF root[i].nonlinear # 0 THEN 1 ELSE 0)
                       + CountInto(root[i], checker_get_subcircuit(root[i]),
                                   depth).count]),
        overflow |-> \E i \in 1..Len(root) :
                       CountInto(root[i], checker_get_subcircuit(root[i]),
                                 depth).overflow]

\* lines 425-427: whether the count goes into the body of the template
\* 'sub' that the definition names
CountRecurses(def, sub) ==
  checker_sub_cycles <= 0 /\ def.type = "Sub" /\ sub.type # Nil

\* lines 424-431: the count of the body of the template 'sub' that the
\* definition names
CountInto(def, sub, depth) ==
  IF CountRecurses(def, sub)
  THEN CountNonlinearities(sub.sub, depth + 1)
  ELSE [count |-> 0, overflow |-> FALSE]

checker_count_nonlinearities(root) == CountNonlinearities(root, 0)

checker_count_action(root, instance) ==
  Len(SelectSeq(root, LAMBDA d : d.action = 1 /\ d.instance = instance))

\* checker_validate_para_cycles (root, instance, deps), the loop of lines
\* 455-472 from position i on
RECURSIVE ParaCyclesLoop(_, _, _, _)
\* a variant that takes a revisited instance for the end of the chain
ParaCyclesAtBlind(root, instance, deps, i, def, val) ==
  IF def.action = 1 /\ def.instance = instance
  THEN IF instance \in Range(deps) THEN 0
       ELSE IF def.type = "SW" /\ val.ident # Nil
       THEN ParaCyclesLoop(root, val.ident, Append(deps, instance), 1)
       ELSE ParaCyclesLoop(root, instance, Append(deps, instance), i + 1)
  ELSE ParaCyclesLoop(root, instance, deps, i + 1)

\* lines 455-472 at the definition def at position i, val its Sim reference
ParaCyclesAt(root, instance, deps, i, def, val) ==
  IF def.action = 1 /\ def.instance = instance
  THEN IF instance \in Range(deps) THEN 1
       ELSE IF def.type = "SW" /\ val.ident # Nil
       THEN ParaCyclesLoop(root, val.ident, Append(deps, instance), 1)
       ELSE ParaCyclesLoop(root, instance, Append(deps, instance), i + 1)
  ELSE ParaCyclesLoop(root, instance, deps, i + 1)

ParaCyclesLoop(root, instance, deps, i) ==
  IF i > Len(root) THEN 0
  ELSE ParaCyclesAt(root, instance, deps, i, root[i],
                    checker_find_reference(root[i], "Sim"))

checker_validate_para_cycles(root, instance, deps) ==
  ParaCyclesLoop(root, instance, deps, 1)

\* lines 482-508: the errors of one parameter sweep, val its Sim reference
ParaErrors(root, def, val) ==
  IF ~(def.action = 1 /\ def.type = "SW") THEN 0
  ELSE IF val.ident = Nil THEN 1
  ELSE (IF def.instance = val.ident THEN 1 ELSE 0)
     + (IF checker_count_action(root, val.ident) # 1 THEN 1 ELSE 0)
     + checker_validate_para_cycles(root, val.ident, <<>>)

checker_validate_para(root) ==
  SumSeq([i \in 1..Len(root) |->
            ParaErrors(root, root[i],
                       checker_validate_reference(root[i], "Sim"))])

\* the positions of the S-parameter ports that give a number as Num
NumberedPorts(root) ==
  {i \in 1..Len(root) :
     /\ root[i].action = PROP_COMPONENT
     /\ root[i].type = "Pac"
     /\ checker_find_prop_value(root[i], "Num") # <<>>}

\* one error for every ordered pair of ports with the same number
checker_validate_ports(root) ==
  Cardinality({pq \in NumberedPorts(root) \X NumberedPorts(root) :
     /\ pq[1] # pq[2]
     /\ Trunc(checker_find_prop_value(root[pq[1]], "Num")[1].value)
          = Trunc(checker_find_prop_value(root[pq[2]], "Num")[1].value)})

\* a variant that takes any number of values in a constant sweep
SweepErrorsOfLists(type, values, start, stop, points) ==
  IF type \in {"const", "list"}
  THEN (IF values = <<>> THEN 1 ELSE 0)
     + (IF start # <<>> THEN 1 ELSE 0)
     + (IF stop # <<>> THEN 1 ELSE 0)
     + (IF points # <<>> THEN 1 ELSE 0)
  ELSE IF type \in {"lin", "log"}
  THEN (IF start = <<>> THEN 1 ELSE 0)
     + (IF stop = <<>> THEN 1 ELSE 0)
     + (IF points = <<>> THEN 1 ELSE 0)
     + (IF values # <<>> THEN 1 ELSE 0)
  ELSE 0

\* lines 571-649: the errors of one sweep from its type and the value chains
\* of its properties
SweepErrorsOf(type, values, start, stop, points) ==
  IF type \in {"const", "list"}
  THEN (IF values = <<>> THEN 1
        ELSE IF type = "const" /\ Len(values) > 1 THEN 1 ELSE 0)
     + (IF start # <<>> THEN 1 ELSE 0)
     + (IF stop # <<>> THEN 1 ELSE 0)
     + (IF points # <<>> THEN 1 ELSE 0)
  ELSE IF type \in {"lin", "log"}
  THEN (IF start = <<>> THEN 1 ELSE 0)
     + (IF stop = <<>> THEN 1 ELSE 0)
     + (IF points = <<>> THEN 1 ELSE 0)
     + (IF values # <<>> THEN 1 ELSE 0)
  ELSE 0

SweepErrors(def) ==
  SweepErrorsOf(checker_find_reference(def, "Type").ident,
                checker_find_prop_value(def, "Values"),
                checker_find_prop_value(def, "Start"),
                checker_find_prop_value(def, "Stop"),
                checker_find_prop_value(def, "Points"))

IsSweep(def) == def.action = 1 /\ def.type \in {"SW", "AC", "SP"}

\* the position of the pair that checker_find_prop_value finds, 0 for none
FoundPropValue(def, key) ==
  IF checker_find_prop_value(def, key) = <<>> THEN 0
  ELSE CHOOSE j \in 1..Len(def.pairs) :
         /\ def.pairs[j].key = key /\ def.pairs[j].values[1].ident = Nil
         /\ \A m \in 1..(j - 1) :
              ~(def.pairs[m].key = key /\ def.pairs[m].values[1].ident = Nil)

\* lines 583-587: the scale of every value of the list of values evaluated
ValuesEvaluated(def, found) ==
  IF found = 0 THEN def
  ELSE [def EXCEPT !.pairs[found].values =
          [k \in 1..Len(def.pairs[found].values) |->
             checker_evaluate_scale(def.pairs[found].values[k])]]

\* the definition as checker_validate_lists leaves it
SweepEvaluated(def) ==
  IF IsSweep(def)
     /\ checker_find_reference(def, "Type").ident \in {"const", "list"}
  THEN ValuesEvaluated(def, FoundPropValue(def, "Values"))
  ELSE def

\* checker_validate_lists: the errors of the sweep properties, whether the
\* function read val->ident through the NULL pointer that
\* checker_find_reference returns for a sweep without an identifier as Type
\* (line 569), which ends the program, and the list afterwards
checker_validate_lists(root) ==
  [errors |-> SumSeq([i \in 1..Len(root) |->
                 IF IsSweep(root[i]) THEN SweepErrors(root[i]) ELSE 0]),
   crash  |-> \E i \in 1..Len(root) :
                 /\ IsSweep(root[i])
                 /\ checker_find_reference(root[i], "Type").ident = Nil,
   root   |-> [i \in 1..Len(root) |-> SweepEvaluated(root[i])]]

\* lines 674-685: the errors about the DC action; a the number of SP and AC
\* actions, n the number of DC actions, c the nonlinearities
DCErrors(a, n, c) ==
    (IF n > 1 THEN 1 ELSE 0)
  + (IF a >= 1 /\ c >= 1 /\ n < 1 THEN 1 ELSE 0)

\* lines 664-685: the errors of the action counts, sp the number of SP
\* actions
ActionCounts(root, sp, a, n, c) ==
    (IF sp >= 1 /\ checker_count_definitions(root, "Pac", 0) < 1
     THEN 1 ELSE 0)
  + DCErrors(a, n, c)

ActionCountErrors(root, c) ==
  IF checker_count_definitions(root, Nil, 1) < 1 THEN 1
  ELSE ActionCounts(root,
         checker_count_definitions(root, "SP", 1),
         checker_count_definitions(root, "SP", 1)
           + checker_count_definitions(root, "AC", 1),
         checker_count_definitions(root, "DC", 1), c)

\* lines 689-693: the result of checker_validate_actions from the count of
\* nonlinearities and the result of the sweep check
ActionsResult(root, c, lists) ==
  [errors   |-> ActionCountErrors(root, c.count)
                + checker_validate_para(root)
                + checker_validate_ports(root)
                + lists.errors,
   overflow |-> c.overflow,
   crash    |-> ~c.overflow /\ lists.crash,
   root     |-> lists.root]

\* checker_validate_actions (root): the number of errors, whether the count
\* of nonlinearities never ended, whether the sweep check ended the program,
\* and the list as the sweep check leaves it
checker_validate_actions(root) ==
  ActionsResult(root,
    IF checker_count_definitions(root, Nil, 1) >= 1
    THEN checker_count_nonlinearities(root)
    ELSE [count |-> 0, overflow |-> FALSE],
    checker_validate_lists(root))

-----------------------------------------------------------------------------
(* The expansion of subcircuit instances.                                  *)

\* checker_build_subcircuits (root) with the registry reg: the list without
\* its Def definitions, and the registry with each of them put in front, the
\* Def definitions of a template body taken out of the body first
RECURSIVE BuildSubcircuits(_, _, _)
BuildTemplate(root, kept, def, inner) ==
  BuildSubcircuits(Tail(root), kept,
                   <<[def EXCEPT !.sub = inner.root]>> \o inner.reg)

BuildSubcircuits(root, kept, reg) ==
  IF root = <<>> THEN [root |-> kept, reg |-> reg]
  ELSE IF Head(root).type = "Def"
  THEN BuildTemplate(root, kept, Head(root),
                     BuildSubcircuits(Head(root).sub, <<>>, reg))
  ELSE BuildSubcircuits(Tail(root), Append(kept, Head(root)), reg)

checker_build_subcircuits(root) == BuildSubcircuits(root, <<>>, subcircuit_root)

\* checker_copy_subcircuit (sub): a copy sharing the properties, marked as a
\* copy, without nodes and without instance name
checker_copy_subcircuit(sub) ==
  [type |-> sub.type, instance |-> Nil, action |-> sub.action, nodes |-> <<>>,
   pairs |-> sub.pairs, sub |-> <<>>, nonlinear |-> sub.nonlinear,
   substrate |-> sub.substrate, nodeset |-> sub.nodeset, duplicate |-> 0,
   copy |-> 1, subcircuit |-> Nil, chain |-> sub.chain]

\* checker_xlat_subcircuit_nodes (type, inst, sub): the element 'sub' with
\* every node that carries the name of a formal node of 'type' translated to
\* the node of 'inst' at the same position; the last such position wins
FormalPositions(type, n) ==
  {i \in 1..Len(type.nodes) : type.nodes[i].node = n.node}

LastPosition(S) == CHOOSE i \in S : \A j \in S : j <= i

XlatNode(inst, n, formal) ==
  IF formal = {} THEN n
  ELSE [n EXCEPT !.xlate = inst.nodes[LastPosition(formal)].node,
                 !.xlatenr = LastPosition(formal)]

checker_xlat_subcircuit_nodes(type, inst, sub) ==
  [sub EXCEPT !.nodes =
     [k \in 1..Len(sub.nodes) |->
        XlatNode(inst, sub.nodes[k], FormalPositions(type, sub.nodes[k]))]]

\* strlist::toString ("."): the entries joined by "."
RECURSIVE JoinDots(_)
JoinDots(list) ==
  IF Len(list) = 1 THEN list[1] ELSE list[1] \o "." \o JoinDots(Tail(list))

\* the "."-joined list of instances, Nil for no list and for an empty list
checker_subcircuit_instance_list(instances) ==
  IF Len(instances) > 0 THEN JoinDots(instances) ELSE Nil

\* a variant that leaves the enclosing instances out
checker_subcircuit_node_flat(type, instances, instance, node) ==
  type \o "." \o instance \o "." \o node

checker_subcircuit_node(type, instances, instance, node) ==
  IF instances # Nil
  THEN type \o "." \o instances \o "." \o instance \o "." \o node
  ELSE type \o "." \o instance \o "." \o node

\* a variant that leaves the enclosing instances out
checker_subcircuit_instance_flat(type, instances, instance, base) ==
  type \o "." \o instance \o "." \o base

checker_subcircuit_instance(type, instances, instance, base) ==
  IF instances # Nil
  THEN type \o "." \o instances \o "." \o instance \o "." \o base
  ELSE type \o "." \o instance \o "." \o base

\* a variant that leaves a translated node blank at the outermost level too
CopiedNodeNameBlank(type, inst, n, instances) ==
  IF n.xlate # Nil THEN Nil
  ELSE IF n.node = "gnd" THEN n.node
  ELSE checker_subcircuit_node(type.instance, instances, inst.instance, n.node)

\* lines 1043-1055 and 1107-1120: the name of the copy of node n of an
\* element of template 'type' instantiated as 'inst'; Nil leaves it blank
CopiedNodeName(type, inst, n, instances) ==
  IF n.xlate # Nil
  THEN (IF instances = Nil THEN n.xlate ELSE Nil)
  ELSE IF n.node = "gnd" THEN n.node
  ELSE checker_subcircuit_node(type.instance, instances, inst.instance, n.node)

\* checker_copy_subcircuit_nodes: the copy with the nodes of 'sub' renamed
checker_copy_subcircuit_nodes(type, inst, sub, copy, instances) ==
  [copy EXCEPT !.nodes =
     [k \in 1..Len(sub.nodes) |->
        [node    |-> CopiedNodeName(type, inst, sub.nodes[k], instances),
         xlate   |-> Nil,
         xlatenr |-> sub.nodes[k].xlatenr]]]

\* a variant that always takes the first node
checker_get_circuit_node_first(nodes, n) == nodes[1]

checker_get_circuit_node(nodes, n) == nodes[n]

\* lines 1107-1120: the node of a copy named through the node n of the Sub
\* element
CircuitNode(type, inst, n, instances) ==
  [node    |-> CopiedNodeName(type, inst, n, instances),
   xlate   |-> Nil,
   xlatenr |-> n.xlatenr]

\* checker_copy_circuit_nodes: the copy with each blank node named through
\* the node of the Sub element 'sub' at the blank node's position
checker_copy_circuit_nodes(type, inst, sub, copy, instances) ==
  [copy EXCEPT !.nodes =
     [k \in 1..Len(copy.nodes) |->
        IF copy.nodes[k].node # Nil THEN copy.nodes[k]
        ELSE CircuitNode(type, inst,
               checker_get_circuit_node(sub.nodes, copy.nodes[k].xlatenr),
               instances)]]

\* lines 1199-1214: the copy of the element 'def' of the template
CopyElement(type, inst, def, list) ==
  checker_copy_subcircuit_nodes(type, inst, def,
    [checker_copy_subcircuit(def) EXCEPT
       !.instance = checker_subcircuit_instance(type.instance, list,
                                                inst.instance, def.instance),
       !.subcircuit = type.instance],
    list)

\* lines 1183-1196: the copies of a nested instance put in front of the
\* copies made so far, their blank nodes named
ChainNested(type, inst, def, copy, list, root) ==
  [c \in 1..Len(copy) |->
     checker_copy_circuit_nodes(type, inst, def, copy[c], list)] \o root

\* checker_copy_subcircuits (type, inst, instances): the copies of the
\* elements of template 'type' for the instance 'inst', in reverse order.
\* CopyLoop is the loop of lines 1171-1220 from position i on, 'root' the
\* copies made so far; CopyOne handles the element 'def' after its nodes
\* were translated.
RECURSIVE checker_copy_subcircuits(_, _, _), CopyLoop(_, _, _, _, _),
          CopyOne(_, _, _, _, _, _, _)
checker_copy_subcircuits(type, inst, instances) ==
  CopyLoop(type, inst, instances, 1, <<>>)

CopyOne(type, inst, instances, i, root, def, list) ==
  IF def.type = "Sub"
  THEN CopyLoop(type, inst, instances, i + 1,
         ChainNested(type, inst, def,
           checker_copy_subcircuits(checker_get_subcircuit(def), def,
                                    Append(instances, inst.instance)),
           list, root))
  ELSE CopyLoop(type, inst, instances, i + 1,
         <<CopyElement(type, inst, def, list)>> \o root)

CopyLoop(type, inst, instances, i, root) ==
  IF i > Len(type.sub) THEN root
  ELSE CopyOne(type, inst, instances, i, root,
               checker_xlat_subcircuit_nodes(type, inst, type.sub[i]),
               checker_subcircuit_instance_list(instances))

\* a variant that puts the copies where the Sub definition was
ChainCopiesInPlace(before, copy, next) ==
  [done |-> before \o copy, rest |-> next]

\* a variant that loses the list before the Sub definition
ChainCopiesOnly(before, copy, next) ==
  IF copy # <<>>
  THEN [done |-> copy, rest |-> next]
  ELSE [done |-> before, rest |-> next]

\* lines 1403-1416: the list after the Sub definition between 'before' (the
\* list up to prev) and 'next' is taken out and its copies are put in; the
\* list comes back in two parts, up to the new prev and from the new next on
ChainCopies(before, copy, next) ==
  IF copy # <<>>
  THEN [done |-> copy, rest |-> before \o next]
  ELSE [done |-> before, rest |-> next]

\* checker_expand_subcircuits (root): 'done' is the list up to and with
\* prev, 'rest' the list from def on
RECURSIVE ExpandLoop(_, _)
ExpandFrom(to) == ExpandLoop(to.done, to.rest)

ExpandLoop(done, rest) ==
  IF rest = <<>> THEN done
  ELSE IF Head(rest).type = "Sub"
  THEN ExpandFrom(ChainCopies(done,
         checker_copy_subcircuits(checker_get_subcircuit(Head(rest)),
                                  Head(rest), <<>>),
         Tail(rest)))
  ELSE ExpandLoop(Append(done, Head(rest)), Tail(rest))

checker_expand_subcircuits(root) == ExpandLoop(<<>>, root)

-----------------------------------------------------------------------------
(* The translations that the expansion writes into the template bodies.    *)

\* a variant that leaves the translations in place
checker_cleanup_xlat_nodes_none(sub) == sub

\* checker_cleanup_xlat_nodes (sub), lines 1075-1082
checker_cleanup_xlat_nodes(sub) ==
  [sub EXCEPT !.nodes =
     [k \in 1..Len(sub.nodes) |->
        [sub.nodes[k] EXCEPT !.xlate = Nil, !.xlatenr = 0]]]

\* the writes of checker_copy_subcircuits (type, inst, instances) into the
\* template bodies, in order: the translation of element i of the template
\* (line 1175), the writes of the call for a nested instance (line 1187),
\* the cleanup of element i (line 1218)
RECURSIVE CopyWrites(_, _), CopyWritesFrom(_, _, _)
CopyWritesAt(type, inst, i, def) ==
  <<[template |-> type.instance, element |-> i, inst |-> inst,
     cleanup |-> FALSE]>>
  \o (IF def.type = "Sub"
      THEN CopyWrites(checker_get_subcircuit(def), def) ELSE <<>>)
  \o <<[template |-> type.instance, element |-> i, inst |-> inst,
        cleanup |-> TRUE]>>
  \o CopyWritesFrom(type, inst, i + 1)

CopyWritesFrom(type, inst, i) ==
  IF i > Len(type.sub) THEN <<>>
  ELSE CopyWritesAt(type, inst, i,
                    checker_xlat_subcircuit_nodes(type, inst, type.sub[i]))

CopyWrites(type, inst) == CopyWritesFrom(type, inst, 1)

\* the writes of checker_expand_subcircuits (root): those of the call of
\* line 1401 for every Sub definition the loop comes to
ExpandWrites(root) ==
  Flatten([i \in 1..Len(root) |->
             IF root[i].type = "Sub"
             THEN CopyWrites(checker_get_subcircuit(root[i]), root[i])
             ELSE <<>>])

\* one write done on the template at position t of the list of templates
WriteDone(reg, t, w) ==
  [reg EXCEPT ![t].sub[w.element] =
     IF w.cleanup THEN checker_cleanup_xlat_nodes(@)
     ELSE checker_xlat_subcircuit_nodes(reg[t], w.inst, @)]

\* the list of templates after the writes
RECURSIVE Rewritten(_, _)
Rewritten(reg, writes) ==
  IF writes = <<>> THEN reg
  ELSE Rewritten(
         WriteDone(reg,
                 CHOOSE t \in 1..Len(reg) :
                   /\ reg[t].instance = Head(writes).template
                   /\ \A u \in 1..(t - 1) :
                        reg[u].instance # Head(writes).template,
                 Head(writes)),
         Tail(writes))

-----------------------------------------------------------------------------
(* The release of the definitions.                                         *)

\* a variant that releases the pairs of a copy too
netlist_free_definition_all(def) ==
  IF def.pairs # <<>> THEN <<def.chain>> ELSE <<>>

\* netlist_free_definition (def): the chains of pairs it releases; a copy
\* releases none (line 1357), netlist_free_pairs (NULL) releases none
netlist_free_definition(def) ==
  IF def.copy = 0 /\ def.pairs # <<>> THEN <<def.chain>> ELSE <<>>

\* netlist_destroy_intern (root)
netlist_destroy_intern(root) ==
  Flatten([i \in 1..Len(root) |-> netlist_free_definition(root[i])])

\* netlist_destroy: the global netlist, every template body, the templates
netlist_destroy ==
  netlist_destroy_intern(definition_root)
  \o Flatten([i \in 1..Len(subcircuit_root) |->
                netlist_destroy_intern(subcircuit_root[i].sub)])
  \o netlist_destroy_intern(subcircuit_root)

\* the chains that checker_expand_subcircuits (root) releases: line 1410
\* for every Sub definition the loop comes to, in its order
RECURSIVE ExpandFreedLoop(_, _)
ExpandFreedFrom(def, to) ==
  netlist_free_definition(def) \o ExpandFreedLoop(to.done, to.rest)

ExpandFreedLoop(done, rest) ==
  IF rest = <<>> THEN <<>>
  ELSE IF Head(rest).type = "Sub"
  THEN ExpandFreedFrom(Head(rest),
         ChainCopies(done,
           checker_copy_subcircuits(checker_get_subcircuit(Head(rest)),
                                    Head(rest), <<>>),
           Tail(rest)))
  ELSE ExpandFreedLoop(Append(done, Head(rest)), Tail(rest))

-----------------------------------------------------------------------------
(* The netlists explored: what the parser hands over.                      *)

Resistor(inst, names) ==
  Definition("R", inst, PROP_COMPONENT, names, <<Pair("R", <<NumValue(50)>>)>>,
             <<>>)

SubInstance(inst, names, type) ==
  Definition("Sub", inst, PROP_COMPONENT, names,
             <<Pair("Type", <<IdentValue(type)>>)>>, <<>>)

Template(name, names, body) ==
  Definition("Def", name, PROP_ACTION, names, <<>>, body)

DCAction == Definition("DC", "dc1", PROP_ACTION, <<>>, <<>>, <<>>)

\* a template A that no statement instantiates
UnusedTemplate == Template("A", <<"p1">>, <<Resistor("r1", <<"p1", "gnd">>)>>)

Diode(inst, names) ==
  Definition("Diode", inst, PROP_COMPONENT, names,
             <<Pair("Is", <<NumValue(1)>>)>>, <<>>)

\* a swept action: its type, name, and the properties after Type
SweptAction(type, inst, sweep, prs) ==
  Definition(type, inst, PROP_ACTION, <<>>,
             <<Pair("Type", <<IdentValue(sweep)>>)>> \o prs, <<>>)

LinearSweep ==
  <<Pair("Start", <<NumValue(1)>>), Pair("Stop", <<NumValue(10)>>),
    Pair("Points", <<NumValue(5)>>)>>

Port(inst, names, num) ==
  Definition("Pac", inst, PROP_COMPONENT, names, <<Pair("Num", <<num>>)>>,
             <<>>)

\* First family: every instantiation graph of at most MaxEdges Sub
\* statements over the templates A, B, C (and the name U of no template),
\* instantiated by at most MaxTop top-level Sub statements.
GraphTemplates == <<"A", "B", "C">>
GraphTargets == <<"A", "B", "C", "U">>
InstanceNames == <<"s1", "s2", "s3", "s4", "s5">>
TopNames == <<"x1", "x2", "x3", "x4">>
TopNets == <<"net1", "net2", "net3", "net4">>

\* an edge is a number: source template and target name
EdgeCodes == 0..(Len(GraphTemplates) * Len(GraphTargets) - 1)
EdgeSource(e) == (e \div Len(GraphTargets)) + 1
EdgeTarget(e) == GraphTargets[(e % Len(GraphTargets)) + 1]

SortedSeqs(S, n) ==
  UNION {{q \in [1..k -> S] : \A i \in 1..(k - 1) : q[i] <= q[i + 1]} :
           k \in 0..n}

GraphSubs(mine) ==
  [j \in 1..Len(mine) |->
     SubInstance(InstanceNames[j], IF j = 1 THEN <<"p1">> ELSE <<"n1">>,
                 EdgeTarget(mine[j]))]

GraphBody(t, edges) ==
  <<Resistor("r1", <<"p1", "n1">>)>>
  \o GraphSubs(SelectSeq(edges, LAMBDA e : EdgeSource(e) = t))

GraphStatements(defs, subs, hasDC) ==
  defs
  \o (IF subs # <<>> THEN <<Head(subs)>> ELSE <<>>)
  \o <<Resistor("r0", <<"net1", "gnd">>)>>
  \o (IF subs # <<>> THEN Tail(subs) ELSE <<>>)
  \o (IF hasDC THEN <<DCAction>> ELSE <<>>)

GraphDefs(edges, flip) ==
  IF flip
  THEN Reverse([t \in 1..Len(GraphTemplates) |->
                  Template(GraphTemplates[t], <<"p1">>, GraphBody(t, edges))])
  ELSE [t \in 1..Len(GraphTemplates) |->
          Template(GraphTemplates[t], <<"p1">>, GraphBody(t, edges))]

GraphNetlist(edges, tops, hasDC, flip) ==
  GraphStatements(GraphDefs(edges, flip),
    [j \in 1..Len(tops) |->
       SubInstance(TopNames[j], <<TopNets[j]>>, GraphTemplates[tops[j]])],
    hasDC)

GraphInputs ==
  {GraphNetlist(edges, tops, hasDC, flip) :
     edges \in SortedSeqs(EdgeCodes, MaxEdges),
     tops \in SortedSeqs(1..Len(GraphTemplates), MaxTop),
     hasDC \in BOOLEAN, flip \in BOOLEAN}

\* Second family: the chain Outer -> Inner -> Leaf instantiated as 'outer',
\* with every wiring of the nested instances, and a few variations: a
\* template defined twice, a resistor with one node, a template defined
\* inside another, an instance name with a '.', an instance with a node too
\* many, and a template reached on two branches.
InstanceWirings ==
  {<<"p1", "p2">>, <<"p2", "n1">>, <<"n1", "gnd">>, <<"p1", "p1">>}
LeafWirings == {<<"p1", "p2">>, <<"p1", "n1">>, <<"gnd", "p2">>}
TopWirings == {<<"ext", "nb">>, <<"ext", "gnd">>}
Variants ==
  {"plain", "dupdef", "badnodes", "nested", "dotted", "arity", "diamond"}
Seconds == {"none", "Outer", "Leaf"}

LeafTemplate(wC, variant) ==
  Template("Leaf", IF variant = "arity" THEN <<"p1">> ELSE <<"p1", "p2">>,
           <<Resistor("r1", wC)>>)

InnerTemplate(wB, leaf, variant) ==
  Template("Inner", <<"p1", "p2">>,
           (IF variant = "nested" THEN <<leaf>> ELSE <<>>)
           \o <<SubInstance("leafInst", wB, "Leaf"),
                Resistor("r1", <<"p1", "n1">>)>>)

OuterTemplate(wA, variant) ==
  Template("Outer", <<"p1", "p2">>,
           <<Resistor("r1", <<"p1", "n1">>),
             SubInstance("innerInst", wA, "Inner")>>
           \o (IF variant = "diamond"
               THEN <<SubInstance("leafInst", <<"n1", "p2">>, "Leaf")>>
               ELSE <<>>))

ChainStatements(wTop, outer, inner, leaf, variant, second) ==
  <<outer, inner>>
  \o (IF variant = "nested" THEN <<>> ELSE <<leaf>>)
  \o (IF variant = "dupdef" THEN <<leaf>> ELSE <<>>)
  \o <<Resistor("r0", <<"ext", "gnd">>)>>
  \o <<SubInstance("outer", wTop, "Outer")>>
  \o (IF variant = "badnodes" THEN <<Resistor("r9", <<"ext">>)>> ELSE <<>>)
  \o (IF variant = "dotted"
      THEN <<SubInstance("outer.innerInst", <<"ext", "gnd">>, "Inner")>>
      ELSE <<>>)
  \o (IF second # "none"
      THEN <<SubInstance("second", <<"nb", "ext">>, second)>> ELSE <<>>)
  \o <<DCAction>>

ChainNetlist(wTop, wA, wB, wC, variant, second) ==
  ChainStatements(wTop, OuterTemplate(wA, variant),
                  InnerTemplate(wB, LeafTemplate(wC, variant), variant),
                  LeafTemplate(wC, variant), variant, second)

ChainInputs ==
  {ChainNetlist(wTop, wA, wB, wC, variant, second) :
     wTop \in TopWirings, wA \in InstanceWirings, wB \in InstanceWirings,
     wC \in LeafWirings, variant \in Variants, second \in Seconds}

Inputs == GraphInputs \cup ChainInputs

\* Third family: a diode at the top level, inside the template A that the
\* top level instantiates, or nowhere; a template C that instantiates itself
\* before or after A, or no such template; and at most one AC, at most one
\* SP and at most MaxDC DC actions.
DiodePlaces == {"none", "top", "inA"}
CyclePlaces == {"none", "first", "last"}
DCNames == <<"dc1", "dc2", "dc3", "dc4">>

DiodeTemplates(diode, cyc) ==
  (IF cyc = "first"
   THEN <<Template("C", <<"p1">>, <<Resistor("r1", <<"p1", "gnd">>),
                                    SubInstance("s1", <<"p1">>, "C")>>)>>
   ELSE <<>>)
  \o <<Template("A", <<"p1">>,
                <<Resistor("r1", <<"p1", "gnd">>)>>
                \o (IF diode = "inA" THEN <<Diode("d1", <<"p1", "gnd">>)>>
                    ELSE <<>>))>>
  \o (IF cyc = "last"
      THEN <<Template("C", <<"p1">>, <<Resistor("r1", <<"p1", "gnd">>),
                                       SubInstance("s1", <<"p1">>, "C")>>)>>
      ELSE <<>>)

DiodeNetlist(diode, cyc, nAC, nSP, nDC) ==
  DiodeTemplates(diode, cyc)
  \o <<Resistor("r0", <<"net1", "gnd">>),
       SubInstance("x1", <<"net1">>, "A")>>
  \o (IF diode = "top" THEN <<Diode("d0", <<"net1", "gnd">>)>> ELSE <<>>)
  \o (IF nSP = 1 THEN <<Port("P1", <<"net1", "gnd">>, NumValue(1)),
                        SweptAction("SP", "sp1", "lin", LinearSweep)>>
      ELSE <<>>)
  \o (IF nAC = 1 THEN <<SweptAction("AC", "ac1", "lin", LinearSweep)>>
      ELSE <<>>)
  \o [k \in 1..nDC |->
        Definition("DC", DCNames[k], PROP_ACTION, <<>>, <<>>, <<>>)]

DiodeInputs ==
  {DiodeNetlist(diode, cyc, nAC, nSP, nDC) :
     diode \in DiodePlaces, cyc \in CyclePlaces, nAC \in 0..1, nSP \in 0..1,
     nDC \in 0..MaxDC}

\* Fourth family: at most MaxPorts S-parameter ports at the top level, each
\* with a number of PortNumbers, a template A with or without such a port
\* in its body, and at most MaxTop instances of A.
PortNumbers == {1, 2}
PortNames == <<"P1", "P2", "P3", "P4">>

PortTemplate(inBody) ==
  Template("A", <<"p1">>,
           <<Resistor("r1", <<"p1", "gnd">>)>>
           \o (IF inBody \in PortNumbers
               THEN <<Port("P0", <<"p1", "gnd">>, NumValue(inBody))>>
               ELSE <<>>))

PortNetlist(inBody, tops, instances) ==
  <<PortTemplate(inBody), Resistor("r0", <<"net1", "gnd">>)>>
  \o [k \in 1..Len(tops) |->
        Port(PortNames[k], <<"net1", "gnd">>, NumValue(tops[k]))]
  \o [k \in 1..instances |-> SubInstance(TopNames[k], <<"net1">>, "A")]
  \o <<DCAction>>

PortInputs ==
  {PortNetlist(inBody, tops, instances) :
     inBody \in PortNumbers \cup {0},
     tops \in UNION {[1..k -> PortNumbers] : k \in 0..MaxPorts},
     instances \in 0..MaxTop}

\* Fifth family: one AC, SP or SW action of each sweep type with each
\* choice among Start, Stop, Points and a list of 1 to MaxValues values; a
\* port for the SP action, an AC action for the parameter sweep to name.
SweepActions == {"AC", "SP", "SW"}
SweepTypes == {"lin", "log", "list", "const"}
SweepKeys == <<"Start", "Stop", "Points", "Values">>

ValueList(n) == [k \in 1..n |-> ScaledValue(k, <<"k">>)]

SweepPair(key, n) ==
  IF key = "Values" THEN Pair(key, ValueList(n)) ELSE Pair(key, <<NumValue(5)>>)

SweepPairs(given, n) ==
  Flatten([k \in 1..Len(SweepKeys) |->
             IF SweepKeys[k] \in given THEN <<SweepPair(SweepKeys[k], n)>>
             ELSE <<>>])

SweepNetlist(action, sweep, given, n) ==
  <<UnusedTemplate, Resistor("r0", <<"net1", "gnd">>)>>
  \o (IF action = "SP" THEN <<Port("P1", <<"net1", "gnd">>, NumValue(1))>>
      ELSE <<>>)
  \o (IF action = "SW"
      THEN <<SweptAction("AC", "ac1", "lin", LinearSweep),
             SweptAction("SW", "e1", sweep,
                         <<Pair("Param", <<IdentValue("X")>>),
                           Pair("Sim", <<IdentValue("ac1")>>)>>
                         \o SweepPairs(given, n))>>
      ELSE <<SweptAction(action, "e1", sweep, SweepPairs(given, n))>>)

SweepInputs ==
  {SweepNetlist(action, sweep, given, n) :
     action \in SweepActions, sweep \in SweepTypes,
     given \in SUBSET Range(SweepKeys), n \in 1..MaxValues}

\* Sixth family: an AC action ac1 and a chain of 1 to MaxCycle parameter
\* sweeps, each naming the next as Sim, the last naming the first (closed)
\* or ac1; and up to MaxLead further sweeps that name the first sweep of
\* the chain, or (chained) the further sweep before them.
CycleNames == <<"sw1", "sw2", "sw3", "sw4">>
LeadNames == <<"in1", "in2", "in3">>

ParameterSweep(inst, sim) ==
  SweptAction("SW", inst, "lin",
              <<Pair("Param", <<IdentValue("X")>>),
                Pair("Sim", <<IdentValue(sim)>>)>> \o LinearSweep)

CycleSweeps(k, closed) ==
  [j \in 1..k |->
     ParameterSweep(CycleNames[j],
                    IF j < k THEN CycleNames[j + 1]
                    ELSE IF closed THEN CycleNames[1] ELSE "ac1")]

LeadSweeps(m, chained) ==
  [j \in 1..m |->
     ParameterSweep(LeadNames[j],
                    IF chained /\ j > 1 THEN LeadNames[j - 1]
                    ELSE CycleNames[1])]

CycleNetlist(k, m, closed, chained, flip) ==
  <<UnusedTemplate, Resistor("r0", <<"net1", "gnd">>),
    SweptAction("AC", "ac1", "lin", LinearSweep)>>
  \o (IF flip THEN Reverse(LeadSweeps(m, chained) \o CycleSweeps(k, closed))
      ELSE LeadSweeps(m, chained) \o CycleSweeps(k, closed))

CycleInputs ==
  {CycleNetlist(k, m, closed, chained, flip) :
     k \in 1..MaxCycle, m \in 0..MaxLead, closed \in BOOLEAN,
     chained \in BOOLEAN, flip \in BOOLEAN}

\* Seventh family: one AC, SP or SW action that gives no identifier as
\* Type (no Type at all, or a number), with each choice among Start, Stop,
\* Points and a list of values; a port for the SP action, an AC action for
\* the parameter sweep to name.
UntypedAction(action, numbered, prs) ==
  Definition(action, "e1", PROP_ACTION, <<>>,
             (IF numbered THEN <<Pair("Type", <<NumValue(1)>>)>> ELSE <<>>)
             \o prs, <<>>)

UntypedNetlist(action, numbered, given) ==
  <<UnusedTemplate, Resistor("r0", <<"net1", "gnd">>)>>
  \o (IF action = "SP" THEN <<Port("P1", <<"net1", "gnd">>, NumValue(1))>>
      ELSE <<>>)
  \o (IF action = "SW"
      THEN <<SweptAction("AC", "ac1", "lin", LinearSweep),
             UntypedAction("SW", numbered,
                           <<Pair("Param", <<IdentValue("X")>>),
                             Pair("Sim", <<IdentValue("ac1")>>)>>
                           \o SweepPairs(given, 1))>>
      ELSE <<UntypedAction(action, numbered, SweepPairs(given, 1))>>)

UntypedInputs ==
  {UntypedNetlist(action, numbered, given) :
     action \in SweepActions, numbered \in BOOLEAN,
     given \in SUBSET Range(SweepKeys)}

PolicyInputs ==
  DiodeInputs \cup PortInputs \cup SweepInputs \cup CycleInputs
  \cup UntypedInputs

\* Eighth family: every list of at most MaxLen statements that are a
\* resistor r1, a resistor r1 with one node, a resistor r2 or a diode r1,
\* after the template that is not instantiated.
Repeatable ==
  <<Resistor("r1", <<"n1", "n2">>), Resistor("r1", <<"n1">>),
    Resistor("r2", <<"n1", "n2">>), Diode("r1", <<"n1", "n2">>)>>

RepeatedInputs ==
  {<<UnusedTemplate>> \o [i \in 1..Len(picks) |-> Repeatable[picks[i]]] :
     picks \in UNION {[1..k -> 1..Len(Repeatable)] : k \in 0..MaxLen}}

\* Ninth family: one or two statements of the types of ArityTypes, each with
\* 0 to MaxNodes nodes and with the properties its type asks for.
ArityTypes == <<"R", "Diode", "Pac", "DC", "SPfile">>
NodePool == <<"n1", "n2", "n3", "n4", "n5">>
StatementNames == <<"e1", "e2">>

\* the properties that make a statement of the type complete
PlainPairs(type, k) ==
  CASE type = "R" -> <<Pair("R", <<NumValue(50)>>)>>
    [] type = "Diode" -> <<Pair("Is", <<NumValue(1)>>)>>
    [] type = "Pac" -> <<Pair("Num", <<NumValue(k)>>)>>
    [] type = "SPfile" -> <<Pair("File", <<IdentValue("F")>>)>>
    [] OTHER -> <<>>

ArityStatement(type, n, k) ==
  Definition(type, StatementNames[k],
             IF type = "DC" THEN PROP_ACTION ELSE PROP_COMPONENT,
             SubSeq(NodePool, 1, n), PlainPairs(type, k), <<>>)

ArityInputs ==
  {<<UnusedTemplate>>
   \o [k \in 1..Len(forms) |->
         ArityStatement(ArityTypes[forms[k][1]], forms[k][2], k)] :
     forms \in UNION {[1..k -> (1..Len(ArityTypes)) \X (0..MaxNodes)] :
                        k \in 1..2}}

\* Tenth family: a resistor or a DC action with every sequence of at most
\* MaxPairs properties whose keys are the keys of its type or the key X.
ShapeTypes == <<"R", "DC">>
ShapeKeys(type) == IF type = "R" THEN <<"R", "Temp", "X">> ELSE <<"MaxIter", "X">>

ShapeStatement(type, keys) ==
  Definition(type, "e1", IF type = "DC" THEN PROP_ACTION ELSE PROP_COMPONENT,
             IF type = "R" THEN <<"n1", "n2">> ELSE <<>>,
             [j \in 1..Len(keys) |-> Pair(keys[j], <<NumValue(50)>>)], <<>>)

ShapeInputs ==
  UNION {{<<UnusedTemplate,
            ShapeStatement(ShapeTypes[t],
                           [j \in 1..Len(picks) |->
                              ShapeKeys(ShapeTypes[t])[picks[j]]])>> :
            picks \in UNION {[1..k -> 1..Len(ShapeKeys(ShapeTypes[t]))] :
                               k \in 0..MaxPairs}} :
           t \in 1..Len(ShapeTypes)}

\* Eleventh family: one statement with one number: the iteration limit of a
\* DC action (a whole number of 2..10000), the permittivity of a substrate
\* (1..100) or the resistance of a resistor (any number), written with or
\* without letters of scale and unit behind it.
ValuePool == {-1, 0, 1, 2, 3, 10, 40, 50, 100, 101, 9999, 10000, 10001}
ValueKeys == {"MaxIter", "er", "R"}

\* what is written behind a number of a property with a range; decibels
\* are written behind multiples of ten only
RangedScales(v) ==
  {<<>>, <<"k">>, <<"m">>, <<"O", "h", "m">>, <<"k", "O", "h", "m">>}
  \cup (IF v >= 0 /\ v <= 50 /\ v % 10 = 0
        THEN {<<"d", "B">>, <<"d", "B", "m">>} ELSE {})

\* what is written behind a resistance
FreeScales ==
  {<<>>, <<"O", "h", "m">>, <<"k", "O", "h", "m">>, <<"m", "m">>, <<"d">>,
   <<"d", "x">>, <<"d", "B">>, <<"d", "B", "m">>, <<"d", "B", "W">>,
   <<"d", "B", "m", "V">>}
  \cup {<<c>> : c \in ScaleLetters}

ValueStatement(key, value) ==
  CASE key = "MaxIter" ->
         Definition("DC", "e1", PROP_ACTION, <<>>,
                    <<Pair("MaxIter", <<value>>)>>, <<>>)
    [] key = "er" ->
         Definition("SUBST", "e1", PROP_COMPONENT, <<>>,
                    <<Pair("er", <<value>>)>>, <<>>)
    [] key = "R" ->
         Definition("R", "e1", PROP_COMPONENT, <<"n1", "n2">>,
                    <<Pair("R", <<value>>)>>, <<>>)

ValueInputs ==
  UNION {{<<UnusedTemplate, ValueStatement(key, ScaledValue(v, scale))>> :
            scale \in IF key = "R" THEN FreeScales ELSE RangedScales(v)} :
           key \in ValueKeys, v \in ValuePool}

\* Twelfth family: any of five statements that give a name (a parameter sweep
\* with Param X and Sim ac1, a microstrip line with substrate S1, an
\* instance of the template A, an S-parameter file F, an AC action of type
\* lin), followed by a statement that uses an identifier.
Givers ==
  << <<SweptAction("SW", "sw1", "lin",
                   <<Pair("Param", <<IdentValue("X")>>),
                     Pair("Sim", <<IdentValue("ac1")>>)>> \o LinearSweep)>>,
     <<Definition("MLIN", "ms1", PROP_COMPONENT, <<"n1", "n2">>,
                  <<Pair("W", <<NumValue(1)>>),
                    Pair("Subst", <<IdentValue("S1")>>)>>, <<>>),
       Definition("SUBST", "S1", PROP_COMPONENT, <<>>,
                  <<Pair("er", <<NumValue(2)>>)>>, <<>>)>>,
     <<SubInstance("x1", <<"n1">>, "A")>>,
     <<Definition("SPfile", "f1", PROP_COMPONENT, <<"n1">>,
                  <<Pair("File", <<IdentValue("F")>>)>>, <<>>)>>,
     <<SweptAction("AC", "ac1", "lin", LinearSweep)>> >>

UsedNames ==
  {"X", "ac1", "S1", "S9", "A", "F", "lin", "polar", "rectangular", "zz"}

\* the statements that use the identifier: a resistor as its resistance, an
\* S-parameter file as its Data, a microstrip line on its own substrate as
\* its width
Users(ident) ==
  { <<Definition("R", "r9", PROP_COMPONENT, <<"n1", "n2">>,
                 <<Pair("R", <<IdentValue(ident)>>)>>, <<>>)>>,
    <<Definition("SPfile", "f9", PROP_COMPONENT, <<"n1">>,
                 <<Pair("File", <<IdentValue("F9")>>),
                   Pair("Data", <<IdentValue(ident)>>)>>, <<>>)>>,
    <<Definition("MLIN", "ms9", PROP_COMPONENT, <<"n1", "n2">>,
                 <<Pair("W", <<IdentValue(ident)>>),
                   Pair("Subst", <<IdentValue("S9")>>)>>, <<>>),
      Definition("SUBST", "S9", PROP_COMPONENT, <<>>,
                 <<Pair("er", <<NumValue(2)>>)>>, <<>>)>> }

NamingInputs ==
  UNION {{<<UnusedTemplate>>
          \o Flatten([g \in 1..Len(Givers) |->
                        IF g \in given THEN Givers[g] ELSE <<>>])
          \o user :
            given \in SUBSET (1..Len(Givers)), user \in Users(ident)} :
           ident \in UsedNames}

\* Thirteenth family: one statement whose first property holds 1 to MaxValues
\* numbers, each written with or without a letter of scale: the iteration
\* limit of a DC action, the permittivity of a substrate, or the list of
\* values of an AC action of sweep type list.
ListKeys == {"MaxIter", "er", "Values"}
ListPool ==
  {ScaledValue(v, scale) : v \in {2, 25, 2500}, scale \in {<<>>, <<"k">>, <<"m">>}}

ListStatement(key, values) ==
  CASE key = "MaxIter" ->
         Definition("DC", "e1", PROP_ACTION, <<>>,
                    <<Pair("MaxIter", values)>>, <<>>)
    [] key = "er" ->
         Definition("SUBST", "e1", PROP_COMPONENT, <<>>,
                    <<Pair("er", values)>>, <<>>)
    [] key = "Values" ->
         Definition("AC", "e1", PROP_ACTION, <<>>,
                    <<Pair("Values", values),
                      Pair("Type", <<IdentValue("list")>>)>>, <<>>)

ListInputs ==
  {<<UnusedTemplate, ListStatement(key, values)>> :
     key \in ListKeys,
     values \in UNION {[1..n -> ListPool] : n \in 1..MaxValues}}

StatementInputs ==
  RepeatedInputs \cup ArityInputs \cup ShapeInputs \cup ValueInputs
  \cup NamingInputs \cup ListInputs

-----------------------------------------------------------------------------
(* netlist_checker as a state machine: one step for each phase of lines    *)
(* 1602-1617.                                                              *)

\* the state after construction, for the netlist handed over
Start(netlist) ==
  /\ input = netlist
  /\ definition_root = Allocated(input, <<>>)
  /\ subcircuit_root = <<>>
  /\ checker_sub_cycles = 0
  /\ errors = 0
  /\ pc = "build"
  /\ idx = 0
  /\ result = <<>>
  /\ released = <<>>
  /\ phase = <<>>

\* line 1602
Built(built) ==
  /\ definition_root' = built.root
  /\ subcircuit_root' = built.reg

Init == \E netlist \in Inputs : Start(netlist)

BuildSubcircuitList ==
  /\ pc = "build"
  /\ Built(checker_build_subcircuits(definition_root))
  /\ pc' = "root"
  /\ UNCHANGED <<checker_sub_cycles, errors, idx, result, released, phase,
                 input>>

\* the accounting of one call r of netlist_checker_intern: the program ends
\* when the call read through a NULL pointer
Interned(r, to) ==
  IF r.crash
  THEN /\ pc' = "crashed"
       /\ UNCHANGED <<errors, checker_sub_cycles, phase>>
  ELSE /\ pc' = to
       /\ errors' = errors + r.errors
       /\ checker_sub_cycles' = r.cycles
       /\ phase' = Append(phase, r.errors)

\* line 1604
GlobalChecked(r) ==
  /\ Interned(r, "registry")
  /\ definition_root' = IF r.crash THEN definition_root ELSE r.root

CheckGlobalNetlist ==
  /\ pc = "root"
  /\ GlobalChecked(netlist_checker_intern(definition_root))
  /\ UNCHANGED <<subcircuit_root, idx, result, released, input>>

\* line 1606
ListChecked(r) ==
  /\ Interned(r, "bodies")
  /\ subcircuit_root' = IF r.crash THEN subcircuit_root ELSE r.root
  /\ idx' = IF r.crash THEN idx ELSE 1

CheckSubcircuitList ==
  /\ pc = "registry"
  /\ ListChecked(netlist_checker_intern(subcircuit_root))
  /\ UNCHANGED <<definition_root, result, released, input>>

\* lines 1608-1610, one template body
BodyChecked(r) ==
  /\ Interned(r, "bodies")
  /\ subcircuit_root' = IF r.crash THEN subcircuit_root
                        ELSE [subcircuit_root EXCEPT ![idx].sub = r.root]
  /\ idx' = IF r.crash THEN idx ELSE idx + 1

CheckSubcircuitBody ==
  /\ pc = "bodies"
  /\ idx <= Len(subcircuit_root)
  /\ BodyChecked(netlist_checker_intern(subcircuit_root[idx].sub))
  /\ UNCHANGED <<definition_root, result, released, input>>

\* line 1612: the count of nonlinearities may never end, the sweep check may
\* read through a NULL pointer; it evaluates the scales of the value lists
ActionsChecked(r) ==
  IF r.overflow \/ r.crash
  THEN /\ pc' = IF r.overflow THEN "overflow" ELSE "crashed"
       /\ UNCHANGED <<errors, phase, definition_root>>
  ELSE /\ pc' = "expand"
       /\ errors' = errors + r.errors
       /\ phase' = Append(phase, r.errors)
       /\ definition_root' = r.root

CheckActions ==
  /\ pc = "bodies"
  /\ idx > Len(subcircuit_root)
  /\ ActionsChecked(checker_validate_actions(definition_root))
  /\ UNCHANGED <<subcircuit_root, checker_sub_cycles, idx, result, released,
                 input>>

\* a variant that still expands with one error counted
ExpandedSloppy(root, errs) ==
  IF errs <= 1 THEN checker_expand_subcircuits(root) ELSE root

\* lines 1613-1616
Expanded(root, errs) ==
  IF errs = 0 THEN checker_expand_subcircuits(root) ELSE root

\* the chains of pairs that lines 1613-1616 release
ExpandedFreed(root, errs) ==
  IF errs = 0 THEN ExpandFreedLoop(<<>>, root) ELSE <<>>

\* the list of templates as lines 1613-1616 leave it
ExpandedTemplates(root, errs) ==
  IF errs = 0 THEN Rewritten(subcircuit_root, ExpandWrites(root))
  ELSE subcircuit_root

ExpandIfNoErrors ==
  /\ pc = "expand"
  /\ definition_root' = Expanded(definition_root, errors)
  /\ subcircuit_root' = ExpandedTemplates(definition_root, errors)
  /\ released' = released \o ExpandedFreed(definition_root, errors)
  /\ pc' = "return"
  /\ UNCHANGED <<checker_sub_cycles, errors, idx, result, phase, input>>

\* a variant that lets a single error pass
ReturnValueLenient(errs) == IF errs > 1 THEN -1 ELSE 0

\* line 1617
ReturnValue(errs) == IF errs # 0 THEN -1 ELSE 0

Return ==
  /\ pc = "return"
  /\ result' = <<ReturnValue(errors)>>
  /\ pc' = "done"
  /\ UNCHANGED <<definition_root, subcircuit_root, checker_sub_cycles, errors,
                 idx, released, phase, input>>

\* netlist_destroy, lines 1630-1639, called after netlist_checker returned
Destroy ==
  /\ pc = "done"
  /\ released' = released \o netlist_destroy
  /\ definition_root' = <<>>
  /\ subcircuit_root' = <<>>
  /\ pc' = "destroyed"
  /\ UNCHANGED <<checker_sub_cycles, errors, idx, result, phase, input>>

Next ==
  \/ BuildSubcircuitList
  \/ CheckGlobalNetlist
  \/ CheckSubcircuitList
  \/ CheckSubcircuitBody
  \/ CheckActions
  \/ ExpandIfNoErrors
  \/ Return
  \/ Destroy

Spec == Init /\ [][Next]_vars

\* netlist_checker on the netlists that try the checks of the actions
InitPolicy == \E netlist \in PolicyInputs : Start(netlist)

SpecPolicy == InitPolicy /\ [][Next]_vars

\* netlist_checker on the netlists that try the checks of one statement
InitStatements == \E netlist \in StatementInputs : Start(netlist)

SpecStatements == InitStatements /\ [][Next]_vars

-----------------------------------------------------------------------------
(* What the netlist handed over says, read off the input alone.            *)

\* the statements of the input outside every template
TopLevel == SelectSeq(input, LAMBDA d : d.type # "Def")

NodeNames(def) == [k \in 1..Len(def.nodes) |-> def.nodes[k].node]

\* a statement without the annotations of the checks
Shape(def) ==
  [type |-> def.type, instance |-> def.instance, nodes |-> NodeNames(def),
   pairs |-> def.pairs]

Shapes(list) == [i \in 1..Len(list) |-> Shape(list[i])]

SubsOf(list) == {list[i] : i \in {j \in 1..Len(list) : list[j].type = "Sub"}}

\* every template of the input, the nested ones too
RECURSIVE AllTemplates(_)
AllTemplates(list) ==
  UNION {{list[i]} \cup AllTemplates(list[i].sub) :
           i \in {j \in 1..Len(list) : list[j].type = "Def"}}

TemplateNames == {t.instance : t \in AllTemplates(input)}

RefTemplate(name) == CHOOSE t \in AllTemplates(input) : t.instance = name

\* the statements of a template, its nested templates left out
RefBody(name) == SelectSeq(RefTemplate(name).sub, LAMBDA d : d.type # "Def")

RefPorts(name) == NodeNames(RefTemplate(name))

\* the template name a Sub statement gives as Type
RefType(sub) == sub.pairs[1].values[1].ident

\* the names the body of a template instantiates
Instantiates(name) == {RefType(s) : s \in SubsOf(RefBody(name))}

RECURSIVE ReachableFrom(_, _)
ReachableFrom(S, n) ==
  IF n = 0 THEN S
  ELSE ReachableFrom(
         S \cup UNION {Instantiates(t) : t \in S \cap TemplateNames}, n - 1)

\* the names a template reaches by one or more instantiations
Reach(name) == ReachableFrom(Instantiates(name), Cardinality(TemplateNames))

Cyclic == \E t \in TemplateNames : t \in Reach(t)

\* the netlist_checker call returned
Returned == pc = "done"
Succeeded == pc = "done" /\ result = <<0>>
Failed == pc = "done" /\ result = <<-1>>

-----------------------------------------------------------------------------
(* The flattened netlist as the specification describes it.  A chain is    *)
(* the sequence of Sub statements from a top-level instance down to the    *)
(* instance whose template body is copied.                                 *)

Front(s) == SubSeq(s, 1, Len(s) - 1)

Last(s) == s[Len(s)]

RECURSIVE RefJoin(_)
RefJoin(parts) ==
  IF Len(parts) = 1 THEN parts[1] ELSE parts[1] \o "." \o RefJoin(Tail(parts))

\* T.i1. ... .ik.inst.base
Qualified(chain, base) ==
  RefJoin(<<RefType(Last(chain))>>
          \o [i \in 1..Len(chain) |-> chain[i].instance]
          \o <<base>>)

\* the argument the instance gives for the formal port n of its template
Actual(sub, n) ==
  sub.nodes[CHOOSE p \in 1..Len(RefPorts(RefType(sub))) :
              /\ RefPorts(RefType(sub))[p] = n
              /\ \A q \in 1..Len(RefPorts(RefType(sub))) :
                   RefPorts(RefType(sub))[q] = n => q <= p].node

IsPort(chain, n) == n \in Range(RefPorts(RefType(Last(chain))))

\* the name in the flattened list of node n of the template body the chain
\* ends in
RECURSIVE RefNode(_, _)
RefNode(chain, n) ==
  IF IsPort(chain, n)
  THEN IF Len(chain) = 1 THEN Actual(Last(chain), n)
       ELSE RefNode(Front(chain), Actual(Last(chain), n))
  ELSE IF n = "gnd" THEN "gnd"
  ELSE Qualified(chain, n)

RefCopy(chain, def) ==
  [type |-> def.type, instance |-> Qualified(chain, def.instance),
   nodes |-> [k \in 1..Len(def.nodes) |-> RefNode(chain, def.nodes[k].node)],
   pairs |-> def.pairs]

\* the copies of the template body the chain ends in, in body order
RECURSIVE RefFlatten(_)
RefFlattenBody(chain, body) ==
  Flatten([i \in 1..Len(body) |->
             IF body[i].type = "Sub" THEN RefFlatten(Append(chain, body[i]))
             ELSE <<RefCopy(chain, body[i])>>])

RefFlatten(chain) == RefFlattenBody(chain, RefBody(RefType(Last(chain))))

RECURSIVE RefChainsFrom(_, _)
RefChainsFrom(chain, depth) ==
  {chain} \cup
  (IF depth = 0 THEN {}
   ELSE UNION {RefChainsFrom(Append(chain, s), depth - 1) :
                 s \in SubsOf(RefBody(RefType(Last(chain))))})

RefChains ==
  UNION {RefChainsFrom(<<s>>, Cardinality(TemplateNames)) : s \in SubsOf(TopLevel)}

\* the element statements of the template body the chain ends in
Elements(chain) ==
  {d \in Range(RefBody(RefType(Last(chain)))) : d.type # "Sub"}

\* the statements of the flattened list made from element def over the chain
CopiesOf(chain, def) ==
  {d \in Range(definition_root) :
     /\ d.copy = 1
     /\ d.type = def.type
     /\ d.subcircuit = RefType(Last(chain))
     /\ d.instance = Qualified(chain, def.instance)}

\* the positions of the nodes of def that are internal to the template
InternalNodes(chain, def) ==
  {k \in 1..Len(def.nodes) :
     ~IsPort(chain, def.nodes[k].node) /\ def.nodes[k].node # "gnd"}

PortNodes(chain, def) ==
  {k \in 1..Len(def.nodes) : IsPort(chain, def.nodes[k].node)}

\* the names that hold a '.'
DottedNames == {"outer.innerInst"}

NoDots ==
  /\ \A d \in Range(TopLevel) : d.instance \notin DottedNames
  /\ \A t \in AllTemplates(input) :
       /\ t.instance \notin DottedNames
       /\ \A d \in Range(t.sub) : d.instance \notin DottedNames

-----------------------------------------------------------------------------
(* The statements checked.                                                 *)

\* C1: when netlist_checker has returned, the value is 0 exactly when the
\* error counts of all phases (the top-level list, the template registry,
\* every template body, the action checks) sum to 0, and -1 otherwise.
C1_ReturnIsZeroIffNoErrors ==
  Returned =>
    /\ Len(phase) = Len(subcircuit_root) + 3
    /\ result = IF SumSeq(phase) = 0 THEN <<0>> ELSE <<-1>>

\* a failed pass whose top-level list is free of errors: the errors are in
\* a later phase
C1_Witness ==
  /\ Failed
  /\ phase[1] = 0
  /\ SumSeq(phase) > 0

\* C2: when netlist_checker reports failure, the top-level list is the list
\* of the original statements outside the templates, in their order: every
\* Sub instance is there and no copy was added.
C2_FailureLeavesUnexpanded ==
  Failed =>
    /\ Shapes(definition_root) = Shapes(TopLevel)
    /\ \A i \in 1..Len(definition_root) : definition_root[i].copy = 0

\* a failed pass over a list with a Sub instance of an existing template
C2_Witness ==
  /\ Failed
  /\ SumSeq(phase) = 1
  /\ \E s \in SubsOf(definition_root) : RefType(s) \in TemplateNames

\* C3: after a successful pass the top-level list holds no Sub statement,
\* and the statements that are no copies are the original statements
\* outside the templates that are no Sub, each once.
C3_NoSubAfterSuccess ==
  Succeeded =>
    /\ SubsOf(definition_root) = {}
    /\ Shapes(SelectSeq(definition_root, LAMBDA d : d.copy = 0))
         = Shapes(SelectSeq(TopLevel, LAMBDA d : d.type # "Sub"))

\* a successful pass over two top-level Sub instances, one of them of a
\* template that instantiates a template that instantiates a third
C3_Witness ==
  /\ Succeeded
  /\ Cardinality(SubsOf(TopLevel)) >= 2
  /\ \E c \in RefChains : Len(c) = 3
  /\ \E i \in 1..Len(definition_root) : definition_root[i].copy = 1

\* C4: after a successful pass, for every chain of instances i1 ... ik, inst
\* of template T and every element of the body of T, the flattened list
\* holds a copy of the element, and in every copy each node that is neither
\* a formal port of T nor gnd is named T.i1. ... .ik.inst.node.
C4_InternalNodesQualified ==
  Succeeded =>
    \A chain \in RefChains : \A def \in Elements(chain) :
      /\ CopiesOf(chain, def) # {}
      /\ \A d \in CopiesOf(chain, def) : \A k \in InternalNodes(chain, def) :
           d.nodes[k].node = Qualified(chain, def.nodes[k].node)

\* instance outer holds instance innerInst of template Inner, whose node n1
\* becomes Inner.outer.innerInst.n1
C4_Witness ==
  /\ Succeeded
  /\ \E d \in Range(definition_root) :
       /\ d.instance = "Inner.outer.innerInst.r1"
       /\ d.nodes[2].node = "Inner.outer.innerInst.n1"

\* C5: after a successful pass, for every chain of instances and every
\* element of the template body it ends in, some copy of the element names
\* each node that is a formal port as the argument resolves: the argument of
\* the top-level instance when the argument is a formal port at every level,
\* the qualified name of the node in the enclosing template E when the
\* argument is internal to E.
C5_PortsResolveOutward ==
  Succeeded =>
    \A chain \in RefChains : \A def \in Elements(chain) :
      \E d \in CopiesOf(chain, def) : \A k \in PortNodes(chain, def) :
        d.nodes[k].node = RefNode(chain, def.nodes[k].node)

\* the first node of the resistor of Leaf passes through three levels to the
\* argument nb of the top-level instance, the second is the node n1 of Inner
C5_Witness ==
  /\ Succeeded
  /\ \E d \in Range(definition_root) :
       /\ d.instance = "Leaf.outer.innerInst.leafInst.r1"
       /\ d.nodes[1].node = "nb"
       /\ d.nodes[2].node = "Inner.outer.innerInst.n1"

\* C6: after a successful pass over names without a '.', no two statements
\* of the flattened list share type and instance name.
C6_UniqueInstanceNames ==
  (Succeeded /\ NoDots) =>
    \A i, j \in 1..Len(definition_root) :
      (/\ definition_root[i].type = definition_root[j].type
       /\ definition_root[i].instance = definition_root[j].instance) => i = j

\* a successful pass that copied the body of template Leaf for two chains
C6_Witness ==
  /\ Succeeded
  /\ NoDots
  /\ \E i, j \in 1..Len(definition_root) :
       /\ i # j
       /\ definition_root[i].copy = 1
       /\ definition_root[j].copy = 1
       /\ definition_root[i].subcircuit = definition_root[j].subcircuit

\* the copies of the top-level Sub instances, one block after the other
RefBlocks ==
  Flatten([i \in 1..Len(TopLevel) |->
             IF TopLevel[i].type = "Sub" THEN RefFlatten(<<TopLevel[i]>>)
             ELSE <<>>])

\* C7 as amended: after a successful pass the flattened list is the copies
\* of all top-level Sub instances in the reverse of the order in which the
\* flattened template bodies list them, the block of a later instance before
\* the block of an earlier one, followed by the original statements that are
\* no Sub in their order.
C7_CopiesAtHeadReversed ==
  Succeeded =>
    Shapes(definition_root)
      = Reverse(RefBlocks)
        \o Shapes(SelectSeq(TopLevel, LAMBDA d : d.type # "Sub"))

\* a successful pass over a Sub instance that follows another statement and
\* whose template body yields more than one copy
C7_Witness ==
  /\ Succeeded
  /\ Len(RefBlocks) >= 2
  /\ \E i, j \in 1..Len(TopLevel) :
       i < j /\ TopLevel[i].type # "Sub" /\ TopLevel[j].type = "Sub"

\* C7 as stated: the copies stand where the Sub statement stood, in the
\* order of the flattened template body.
C7_CopiesInPlaceInOrder ==
  Succeeded =>
    Shapes(definition_root)
      = Flatten([i \in 1..Len(TopLevel) |->
                   IF TopLevel[i].type = "Sub" THEN RefFlatten(<<TopLevel[i]>>)
                   ELSE <<Shape(TopLevel[i])>>])

\* C8 as stated: when the templates instantiate each other in a cycle,
\* netlist_checker comes to its end and returns failure.
C8_CyclesRejected ==
  Cyclic =>
    /\ pc \notin {"overflow", "crashed"}
    /\ Returned => result = <<-1>>

\* C9: when the templates do not instantiate each other in a cycle, the
\* cycle check started at any template reports 0 whenever it returns (it
\* does not return when a body names a template that does not exist).
C9_AcyclicPasses ==
  (pc # "build" /\ ~Cyclic) =>
    \A i \in 1..Len(subcircuit_root) :
      \/ checker_validate_sub_cycles(subcircuit_root[i],
                                     subcircuit_root[i].instance, <<>>).crash
      \/ checker_validate_sub_cycles(subcircuit_root[i],
                                     subcircuit_root[i].instance, <<>>).errors = 0

\* a successful pass over a template with two Sub statements from which the
\* same template is reached
C9_Witness ==
  /\ Succeeded
  /\ ~Cyclic
  /\ \E t \in TemplateNames : \E s1, s2 \in SubsOf(RefBody(t)) :
       /\ s1 # s2
       /\ (ReachableFrom({RefType(s1)}, Cardinality(TemplateNames))
           \cap ReachableFrom({RefType(s2)}, Cardinality(TemplateNames))) # {}
       /\ \E s \in SubsOf(TopLevel) : RefType(s) = t

\* C10 as stated: every phase of netlist_checker reaches its end; the count
\* of nonlinearities never goes round a cycle of templates without end.
C10_EveryPhaseEnds == pc # "overflow"

-----------------------------------------------------------------------------
(* The checks of the actions as the specification describes them.          *)

\* a template from which no cycle of instantiations is reached
NonCyclic(t) ==
  \A u \in ({t} \cup Reach(t)) \cap TemplateNames : u \notin Reach(u)

RefIsNonlinear(d) ==
  \E i \in 1..Len(qucs_definition_available) :
    /\ qucs_definition_available[i].type = d.type
    /\ qucs_definition_available[i].action = d.action
    /\ qucs_definition_available[i].nonlinear = 1

\* the nonlinear statements of a list, counted directly and through the
\* bodies of the non-cyclic templates its Sub statements name
RECURSIVE RefNonlinear(_)
RefNonlinear(list) ==
  SumSeq([i \in 1..Len(list) |->
    (IF RefIsNonlinear(list[i]) THEN 1 ELSE 0)
    + (IF /\ list[i].type = "Sub"
          /\ RefType(list[i]) \in TemplateNames
          /\ NonCyclic(RefType(list[i]))
       THEN RefNonlinear(RefBody(RefType(list[i]))) ELSE 0)])

\* the number of top-level actions of the given types
RefActions(types) ==
  Len(SelectSeq(TopLevel, LAMBDA d : d.action = 1 /\ d.type \in types))

RefDCError(a, n, c) == IF n > 1 \/ (a >= 1 /\ c >= 1 /\ n < 1) THEN 1 ELSE 0

\* C11 as stated: checker_validate_actions counts a DC error exactly when
\* there is more than one DC action, or there is an AC or SP action and a
\* nonlinear statement (counted directly and through the bodies of
\* non-cyclic templates) and no DC action; one AC action with one nonlinear
\* statement and no DC action is rejected.
C11_DCErrorRule ==
  /\ pc = "expand" =>
       DCErrors(checker_count_definitions(definition_root, "SP", 1)
                  + checker_count_definitions(definition_root, "AC", 1),
                checker_count_definitions(definition_root, "DC", 1),
                checker_count_nonlinearities(definition_root).count)
       = RefDCError(RefActions({"AC", "SP"}), RefActions({"DC"}),
                    RefNonlinear(TopLevel))
  /\ (/\ Returned
      /\ RefActions({"AC"}) = 1
      /\ RefNonlinear(TopLevel) = 1
      /\ RefActions({"DC"}) = 0) => result = <<-1>>

\* the positions of the S-parameter ports of a list
PortsOf(list) == {i \in 1..Len(list) : list[i].type = "Pac"}

\* the number a port gives as Num
PortNumber(d) ==
  (CHOOSE p \in Range(d.pairs) : p.key = "Num").values[1].value

SameNumber(x, y) == ~Less(x, y) /\ ~Less(y, x)

\* C12 as stated: after success the S-parameter ports of the resulting list
\* carry pairwise different numbers, those inlined from template bodies and
\* from a template instantiated more than once included.
C12_PortNumbersDistinct ==
  Succeeded =>
    \A i, j \in PortsOf(definition_root) :
      i # j => ~SameNumber(PortNumber(definition_root[i]),
                           PortNumber(definition_root[j]))

-----------------------------------------------------------------------------
(* The checks of one list as the specification describes them.             *)

\* the positions of a list that repeat (type, instance) of position i
GroupOf(list, i) ==
  {j \in 1..Len(list) : /\ list[j].type = list[i].type
                        /\ list[j].instance = list[i].instance}

\* the first positions of the groups of two or more statements
RefGroups(list) ==
  {i \in 1..Len(list) : /\ Cardinality(GroupOf(list, i)) >= 2
                        /\ \A j \in GroupOf(list, i) : i <= j}

\* C13: for every group of two or more statements of one list that share
\* type and instance, netlist_checker_intern counts the duplicate error
\* once: beside the errors of the single statements the list counts one
\* error for each group, the first statement of a group stays unmarked and
\* every later one is marked as duplicate.
C13_DuplicateCountedOnce ==
  pc = "registry" =>
    /\ InternLoop(TopLevel, 1, 0).errors
         = Cardinality(RefGroups(TopLevel))
           + SumSeq([i \in 1..Len(TopLevel) |->
                       DefinitionErrors(TopLevel, TopLevel[i])])
    /\ phase[1] >= Cardinality(RefGroups(TopLevel))
    /\ \A i \in 1..Len(definition_root) :
         definition_root[i].duplicate
           = IF \E j \in GroupOf(TopLevel, i) : j < i THEN 1 ELSE 0

\* the check has gone over a list with a group of three statements, has
\* counted one error and has marked the second and the third
C13_Witness ==
  /\ pc = "registry"
  /\ phase = <<1>>
  /\ \E i \in RefGroups(TopLevel) :
       /\ Cardinality(GroupOf(TopLevel, i)) = 3
       /\ \A j \in GroupOf(TopLevel, i) \ {i} : definition_root[j].duplicate = 1

\* the catalog entries of the type and class of a statement
RefEntries(d) ==
  {e \in Range(qucs_definition_available) :
     e.type = d.type /\ e.action = d.action}

RefEntry(d) == CHOOSE e \in RefEntries(d) : TRUE

\* the statements of a list with a catalog entry whose node count is not
\* what the entry asks for
RefNodeErrors(list) ==
  {i \in 1..Len(list) :
     /\ RefEntries(list[i]) # {}
     /\ \/ /\ RefEntry(list[i]).nodes >= 0
           /\ Len(list[i].nodes) # RefEntry(list[i]).nodes
        \/ /\ RefEntry(list[i]).nodes < 0
           /\ Len(list[i].nodes) < 1}

\* C14: netlist_checker_intern counts a node-count error for a statement
\* exactly when its catalog entry has a fixed number of nodes and the
\* statement has another number, or the entry takes any number and the
\* statement has none; where nothing else is wrong with the statements the
\* errors of the list are the statements with such a count.
C14_NodeCountRule ==
  pc = "registry" =>
    /\ \A i \in 1..Len(TopLevel) :
         RefEntries(TopLevel[i]) # {} =>
           NodeCountErrors(TopLevel[i], RefEntry(TopLevel[i]))
             = IF i \in RefNodeErrors(TopLevel) THEN 1 ELSE 0
    /\ input \in ArityInputs =>
         phase[1] = Cardinality(RefNodeErrors(TopLevel))

\* a resistor, which has two nodes, has been given one and the check of
\* the list has counted one error
C14_Witness ==
  /\ pc = "registry"
  /\ input \in ArityInputs
  /\ phase = <<1>>
  /\ \E i \in RefNodeErrors(TopLevel) :
       /\ TopLevel[i].type = "R"
       /\ Len(TopLevel[i].nodes) = 1

\* how often a statement gives a key
RefOccurs(d, key) == Cardinality({j \in 1..Len(d.pairs) : d.pairs[j].key = key})

RefKeys(descriptors) == {descriptors[i].key : i \in 1..Len(descriptors)}

\* the errors of the shape of the properties of a statement with a catalog
\* entry: the required keys not given exactly once, the optional keys given
\* more than once, and the properties whose key is not declared
RefShapeErrors(d) ==
    Cardinality({k \in RefKeys(RefEntry(d).required) : RefOccurs(d, k) # 1})
  + Cardinality({k \in RefKeys(RefEntry(d).optional) : RefOccurs(d, k) > 1})
  + Cardinality({j \in 1..Len(d.pairs) :
                   d.pairs[j].key \notin RefKeys(RefEntry(d).required)
                                    \cup RefKeys(RefEntry(d).optional)})

\* the errors the code counts for the shape of the properties of a statement
ShapeErrors(d, available) ==
    PropertyCountErrors(d, available)
  + Cardinality({j \in 1..Len(d.pairs) :
                   ~checker_is_property(available, d.pairs[j].key)})

\* C15: the checks of the shape of the properties count one error for each
\* required key that does not occur exactly once, one for each optional key
\* that occurs more than once and one for each property whose key is not
\* declared, and go on after each; they count no error exactly when every
\* required key occurs once, every optional key at most once and every key
\* given is declared.
C15_PropertyShapeRule ==
  pc = "registry" =>
    /\ \A i \in 1..Len(TopLevel) :
         RefEntries(TopLevel[i]) # {} =>
           ShapeErrors(TopLevel[i], RefEntry(TopLevel[i]))
             = RefShapeErrors(TopLevel[i])
    /\ input \in ShapeInputs =>
         /\ phase[1] = RefShapeErrors(TopLevel[1])
         /\ phase[1] = 0 <=>
              /\ \A k \in RefKeys(RefEntry(TopLevel[1]).required) :
                   RefOccurs(TopLevel[1], k) = 1
              /\ \A k \in RefKeys(RefEntry(TopLevel[1]).optional) :
                   RefOccurs(TopLevel[1], k) <= 1
              /\ \A j \in 1..Len(TopLevel[1].pairs) :
                   TopLevel[1].pairs[j].key
                     \in RefKeys(RefEntry(TopLevel[1]).required)
                         \cup RefKeys(RefEntry(TopLevel[1]).optional)

\* a resistor without R, with Temp twice and with a property X: three
\* errors, one for each
C15_Witness ==
  /\ pc = "registry"
  /\ input \in ShapeInputs
  /\ TopLevel[1].type = "R"
  /\ RefOccurs(TopLevel[1], "R") = 0
  /\ RefOccurs(TopLevel[1], "Temp") = 2
  /\ RefOccurs(TopLevel[1], "X") = 1
  /\ phase = <<3>>

\* the descriptor of a key of a statement with a catalog entry
RefDescriptor(d, key) ==
  CHOOSE p \in Range(RefEntry(d).required \o RefEntry(d).optional) :
    p.key = key

\* the first value of the first property of the first statement: as the
\* netlist was handed over and as the check of the list has left it
Written == TopLevel[1].pairs[1].values[1]
Evaluated == definition_root[1].pairs[1].values[1]
WrittenAs == RefDescriptor(TopLevel[1], TopLevel[1].pairs[1].key)

RefOutside(x, prop) == Less(x, Number(prop.l)) \/ Less(Number(prop.h), x)

\* C16: the number v of a property with the range [lo, hi] is rejected
\* exactly when v < lo or v > hi, both ends being accepted (a number with a
\* fraction is rejected for a property of whole numbers in any case); the
\* number of a property without range is never rejected for its magnitude.
C16_RangeRule ==
  (pc = "registry" /\ input \in ValueInputs) =>
    /\ (WrittenAs.hasRange /\ ~(WrittenAs.int /\ HasFraction(Evaluated.value)))
         => phase[1] = IF RefOutside(Evaluated.value, WrittenAs) THEN 1 ELSE 0
    /\ (WrittenAs.hasRange /\ Written.scale = <<>>)
         => phase[1] = IF \/ Written.value.m < WrittenAs.l
                          \/ Written.value.m > WrittenAs.h THEN 1 ELSE 0
    /\ ~WrittenAs.hasRange => phase[1] = 0

\* the iteration limit written as 10 k, the upper end of its range, has
\* been accepted
C16_Witness ==
  /\ pc = "registry"
  /\ input \in ValueInputs
  /\ TopLevel[1].pairs[1].key = "MaxIter"
  /\ Written.value.m = 10
  /\ Written.scale = <<"k">>
  /\ ~Less(Evaluated.value, Number(WrittenAs.h))
  /\ phase = <<0>>

\* the powers of ten of the prefix letters
RefPowers ==
  [T |-> 12, G |-> 9, M |-> 6, k |-> 3, m |-> -3, u |-> -6, n |-> -9,
   p |-> -12, f |-> -15, a |-> -18]

RefMeans(x, letters) == [value |-> x, unit |-> letters]

\* what a number followed by letters stands for, and the unit left over;
\* 'milli' says whether an 'm' right behind "dB" is the factor 1e-3
RefMeaning(x, letters, milli) ==
  IF letters = <<>> THEN RefMeans(x, <<>>)
  ELSE IF Head(letters) \in DOMAIN RefPowers
  THEN RefMeans(Times10(x, RefPowers[Head(letters)]), Tail(letters))
  ELSE IF Len(letters) >= 2 /\ letters[1] = "d" /\ letters[2] = "B"
  THEN (IF milli /\ Len(letters) >= 3 /\ letters[3] = "m"
        THEN RefMeans(Times10(FromDecibel(x), -3),
                      Tail(Tail(Tail(letters))))
        ELSE RefMeans(FromDecibel(x), Tail(Tail(letters))))
  ELSE IF Head(letters) = "d" THEN RefMeans(x, Tail(letters))
  ELSE RefMeans(x, letters)

\* the first value of every property of every statement with a catalog
\* entry stands, after the check of the list, for what was written, and
\* evaluating its scale once more changes nothing
RefFolded(milli) ==
  \A i \in 1..Len(TopLevel) : \A j \in 1..Len(TopLevel[i].pairs) :
    RefEntries(TopLevel[i]) # {} =>
      /\ definition_root[i].pairs[j].values[1].value
           = RefMeaning(TopLevel[i].pairs[j].values[1].value,
                        TopLevel[i].pairs[j].values[1].scale, milli).value
      /\ definition_root[i].pairs[j].values[1].unit
           = RefMeaning(TopLevel[i].pairs[j].values[1].value,
                        TopLevel[i].pairs[j].values[1].scale, milli).unit
      /\ definition_root[i].pairs[j].values[1].scale = <<>>
      /\ checker_evaluate_scale(definition_root[i].pairs[j].values[1])
           = definition_root[i].pairs[j].values[1]

\* C17 as amended: evaluating the scale is exact and a second evaluation
\* changes nothing: a prefix letter multiplies by its power of ten (1 with k
\* is 1000, no unit), "dB" turns v into 10^(v/10), an 'm' right behind "dB"
\* is the factor 1e-3 (3 with dBm is 10^(3/10) * 1e-3, no unit), and the
\* letters left over are the unit.
C17_ScaleFolding == pc = "registry" => RefFolded(TRUE)

\* C17 as stated: 3 with dBm is 10^(3/10) and keeps the unit m.
C17_ScaleFoldingKeepsMilli == pc = "registry" => RefFolded(FALSE)

\* a resistance written as 3 dBm has been evaluated to 10^(3/10) * 1e-3
\* without scale and unit
C17_Witness ==
  /\ pc = "registry"
  /\ input \in ValueInputs
  /\ Written.value = Number(3)
  /\ Written.scale = <<"d", "B", "m">>
  /\ Evaluated.value = [m |-> 3, e |-> 0, db |-> TRUE, f |-> -3]
  /\ Evaluated.unit = <<>>
  /\ Evaluated.scale = <<>>

\* the identifiers that the statements of the type give as the key
RefGiven(list, type, key) ==
  UNION {{list[i].pairs[j].values[1].ident :
            j \in {m \in 1..Len(list[i].pairs) : list[i].pairs[m].key = key}} :
           i \in {n \in 1..Len(list) : list[n].type = type}} \ {Nil}

\* the resolution domains that hold the identifier used as the key of the
\* statement d of the list: 1 parameter of a sweep, 2 analysis of a sweep,
\* 3 substrate of d itself, a microstrip component, 4 type of a subcircuit
\* instance, 5 a special value of the type and key of d, 6 file of an
\* S-parameter file component
RefDomains(list, d, key, ident) ==
  {n \in 1..6 :
     \/ n = 1 /\ ident \in RefGiven(list, "SW", "Param")
     \/ n = 2 /\ ident \in RefGiven(list, "SW", "Sim")
     \/ n = 3 /\ d.type \in Range(strip_available)
              /\ ident \in RefGiven(<<d>>, d.type, "Subst")
     \/ n = 4 /\ ident \in RefGiven(list, "Sub", "Type")
     \/ n = 5 /\ \E s \in Range(checker_specials) :
                   s.type = d.type /\ s.key = key /\ ident \in Range(s.value)
     \/ n = 6 /\ ident \in RefGiven(list, "SPfile", "File")}

\* the properties of a list whose first value is an identifier that no
\* domain holds
RefUnresolved(list) ==
  {ij \in (1..Len(list)) \X (1..MaxPairs) :
     /\ ij[2] <= Len(list[ij[1]].pairs)
     /\ list[ij[1]].pairs[ij[2]].values[1].ident # Nil
     /\ RefDomains(list, list[ij[1]], list[ij[1]].pairs[ij[2]].key,
                   list[ij[1]].pairs[ij[2]].values[1].ident) = {}}

\* C18 as stated: checker_resolve_variable counts an error for the value of
\* a property exactly when the value is an identifier that none of the six
\* resolution domains holds; an identifier held by several domains is
\* accepted and a number is never unresolved.
C18_UnresolvedRule ==
  pc = "registry" =>
    /\ \A i \in 1..Len(TopLevel) : \A j \in 1..Len(TopLevel[i].pairs) :
         (checker_resolve_variable(TopLevel, TopLevel[i],
                                   TopLevel[i].pairs[j].values[1]) = 0)
           <=> (<<i, j>> \in RefUnresolved(TopLevel))
    /\ input \in NamingInputs =>
         phase[1] = Cardinality(RefUnresolved(TopLevel))

\* the swept action of a netlist with one such action named e1
Swept == CHOOSE d \in Range(TopLevel) : d.instance = "e1"

RefGives(d, key) == RefOccurs(d, key) >= 1

RefSweepType(d) == (CHOOSE p \in Range(d.pairs) : p.key = "Type").values[1].ident

\* the number of the keys among Start, Stop, Points that the action gives
RefStepKeys(d) == Cardinality({k \in {"Start", "Stop", "Points"} : RefGives(d, k)})

\* the errors of the properties of a sweep; 'single' says whether a constant
\* sweep is held to one value
RefSweepErrors(d, single) ==
  IF RefSweepType(d) \in {"list", "const"}
  THEN (IF ~RefGives(d, "Values") THEN 1 ELSE 0) + RefStepKeys(d)
       + (IF /\ single
             /\ RefSweepType(d) = "const"
             /\ RefGives(d, "Values")
             /\ Len((CHOOSE p \in Range(d.pairs) : p.key = "Values").values) > 1
          THEN 1 ELSE 0)
  ELSE (3 - RefStepKeys(d)) + (IF RefGives(d, "Values") THEN 1 ELSE 0)

\* C19 as amended: for an SW, AC or SP action of sweep type list or const
\* the sweep check counts one error when Values is absent and one for each
\* of Start, Stop, Points that is present, and for type const one more when
\* Values holds more than one value; for type lin or log one for each of
\* Start, Stop, Points that is absent and one when Values is present.
C19_SweepProperties ==
  (pc = "expand" /\ input \in SweepInputs) =>
    /\ phase[Len(phase)] = RefSweepErrors(Swept, TRUE)
    /\ SweepErrors(Swept) = RefSweepErrors(Swept, TRUE)

\* C19 as stated: an action that gives exactly the properties of its sweep
\* type has no sweep error, a constant sweep with several values included.
C19_SweepPropertiesAnyValues ==
  (pc = "expand" /\ input \in SweepInputs) =>
    phase[Len(phase)] = RefSweepErrors(Swept, FALSE)

\* a parameter sweep of type list that gives Start and Points beside its
\* two values has been checked: two errors
C19_Witness ==
  /\ pc = "expand"
  /\ input \in SweepInputs
  /\ Swept.type = "SW"
  /\ RefSweepType(Swept) = "list"
  /\ RefGives(Swept, "Values") /\ RefGives(Swept, "Start")
  /\ RefGives(Swept, "Points") /\ ~RefGives(Swept, "Stop")
  /\ Last(phase) = 2

\* the parameter sweeps of the netlist and the action each names as Sim
RefSweepNames ==
  {d.instance : d \in {x \in Range(TopLevel) : x.type = "SW" /\ x.action = 1}}

RefTarget(name) ==
  (CHOOSE p \in Range((CHOOSE d \in Range(TopLevel) :
                         d.type = "SW" /\ d.instance = name).pairs) :
     p.key = "Sim").values[1].ident

\* the names reached from a sweep in 1 to n steps along Sim
RECURSIVE RefFollow(_, _)
RefFollow(name, n) ==
  IF n = 0 \/ name \notin RefSweepNames THEN {}
  ELSE {RefTarget(name)} \cup RefFollow(RefTarget(name), n - 1)

\* the sweeps on a cycle, and the sweeps whose chain runs into a cycle
RefCyclicSweeps ==
  {s \in RefSweepNames : s \in RefFollow(s, Cardinality(RefSweepNames))}

RefIntoCycle ==
  {s \in RefSweepNames :
     (RefFollow(s, Cardinality(RefSweepNames)) \cup {s}) \cap RefCyclicSweeps
       # {}}

\* the cyclic definition errors that checker_validate_para counts
ParaCycleErrors(root) ==
  SumSeq([i \in 1..Len(root) |->
    IF /\ root[i].action = 1 /\ root[i].type = "SW"
       /\ checker_validate_reference(root[i], "Sim").ident # Nil
    THEN checker_validate_para_cycles(
           root, checker_validate_reference(root[i], "Sim").ident, <<>>)
    ELSE 0])

-----------------------------------------------------------------------------
(* The gate of the count of nonlinearities.                                *)

\* the Sub statements the count of nonlinearities can come to: those of the
\* global netlist and of the template bodies, that name a template
CountedSubs ==
  {d \in Range(definition_root)
         \cup UNION {Range(subcircuit_root[i].sub) :
                       i \in 1..Len(subcircuit_root)} :
     d.type = "Sub" /\ checker_get_subcircuit(d).type # Nil}

\* the count of nonlinearities is about to be taken
CountDue ==
  /\ pc = "bodies"
  /\ idx > Len(subcircuit_root)
  /\ checker_count_definitions(definition_root, Nil, 1) >= 1

\* C21 as stated: when the nonlinearities are counted, the count goes into
\* the body of the template a Sub statement names exactly when no cycle of
\* instantiations is reached from that template, whatever the order in
\* which the templates and Sub statements were checked.
C21_CountGatedPerTemplate ==
  CountDue =>
    \A d \in CountedSubs :
      CountRecurses(d, checker_get_subcircuit(d))
        <=> NonCyclic(checker_get_subcircuit(d).instance)

-----------------------------------------------------------------------------
(* The path set of the cycle check.                                        *)

\* the walks of checker_validate_sub_cycles that checker_validate_subcircuits
\* starts: one from the template of each Sub statement, with no dependencies
Walk(sub) == checker_validate_sub_cycles(sub, sub.instance, <<>>).trace

Walks ==
  {Walk(checker_get_subcircuit(d)) :
     d \in {x \in CountedSubs :
              ~checker_validate_sub_cycles(checker_get_subcircuit(x),
                 checker_get_subcircuit(x).instance, <<>>).crash}}

\* the positions of the calls of a walk that have not returned after its
\* first k events, outermost first
RECURSIVE Frames(_, _)
Frames(trace, k) ==
  IF k = 0 THEN <<>>
  ELSE IF trace[k].kind = "call" THEN Append(Frames(trace, k - 1), k)
  ELSE Front(Frames(trace, k - 1))

\* the templates of those calls: the chain from the start template on
Chain(trace, k) ==
  [j \in 1..Len(Frames(trace, k)) |-> trace[Frames(trace, k)[j]].type]

\* the position of the call that returns at position k
CallOf(trace, k) == Last(Frames(trace, k - 1))

\* the templates of the calls made by the call at position c
CalledBy(trace, c) ==
  {trace[j].type : j \in {k \in 1..Len(trace) :
     /\ trace[k].kind = "call"
     /\ Frames(trace, k - 1) # <<>>
     /\ Last(Frames(trace, k - 1)) = c}}

\* what follows the return at position k < Len(trace) is the caller going
\* on: its next call or its own return, with the caller's path set
RestoredAfter(trace, k) ==
  IF trace[k].errors = 0
  THEN trace[k + 1].deps = trace[CallOf(trace, k)].deps
  ELSE trace[k + 1].deps = trace[k].deps

\* C22: in checker_validate_sub_cycles, after a recursive call that returns
\* 0 the caller's path set is what it was just before that call, and after
\* a call that returns nonzero it is what the callee left; every call that
\* did not find its template in the path set examines all Sub statements of
\* the body, also after a nonzero return; and in a walk without a cycle the
\* path set handed to every call is the chain of templates from the start
\* template to the caller.
C22_PathSetRestored ==
  pc = "root" =>
    \A trace \in Walks :
      /\ \A k \in 1..(Len(trace) - 1) :
           trace[k].kind = "return" => RestoredAfter(trace, k)
      /\ \A c \in 1..Len(trace) :
           (trace[c].kind = "call"
            /\ trace[c].type \notin Range(trace[c].deps))
             => CalledBy(trace, c) = Instantiates(trace[c].type)
      /\ trace[Len(trace)].errors = 0 =>
           \A k \in 1..Len(trace) :
             trace[k].kind = "call" => trace[k].deps = Chain(trace, k - 1)

\* a walk in which a call returned nonzero and the caller went on to the
\* next Sub statement of the body, and a call returned 0 after which the
\* path set was restored to a shorter one
C22_Witness ==
  /\ pc = "root"
  /\ \E trace \in Walks :
       /\ \E k \in 1..(Len(trace) - 1) :
            /\ trace[k].kind = "return" /\ trace[k].errors # 0
            /\ trace[k + 1].kind = "call"
       /\ \E k \in 1..(Len(trace) - 1) :
            /\ trace[k].kind = "return" /\ trace[k].errors = 0
            /\ Len(trace[k + 1].deps) < Len(trace[k].deps)

-----------------------------------------------------------------------------
(* The values of a list and the checks of range and whole numbers.         *)

\* the first property of the first statement: as the netlist was handed
\* over and as the check of the list has left it
ListWritten == TopLevel[1].pairs[1]
ListLeft == definition_root[1].pairs[1]

\* the values as written, the scale of each folded into the number
RefFoldedList ==
  [k \in 1..Len(ListWritten.values) |->
     checker_evaluate_scale(ListWritten.values[k])]

\* the errors of the values against the descriptor when every value is
\* compared with the range and tested for a fraction
RefListErrors(values, prop) ==
    (IF ~prop.lst /\ Len(values) > 1 THEN 1 ELSE 0)
  + (IF prop.hasRange
     THEN Cardinality({k \in 1..Len(values) : RefOutside(values[k].value, prop)})
     ELSE 0)
  + (IF prop.int /\ \E k \in 1..Len(values) : HasFraction(values[k].value)
     THEN 1 ELSE 0)

\* C23 as stated: when the check of a list of statements has compared the
\* values of a numeric property with its range and tested them for whole
\* numbers, the scale of every value of the property, not only of the
\* first, has been folded into the number, and the check has counted the
\* errors of the folded values: every value outside of the range and a
\* fraction in any value of a property of whole numbers.
C23_EveryValueFoldedFirst ==
  (pc = "registry" /\ input \in ListInputs) =>
    /\ ListLeft.values = RefFoldedList
    /\ checker_value_in_prop_range(ScaleEvaluated(ListWritten), WrittenAs)
         = RefListErrors(RefFoldedList, WrittenAs)

-----------------------------------------------------------------------------
(* The special values of a property.                                       *)

\* the specials of the type and key of a property of the statement d
RefSpecials(d, key) ==
  {s \in Range(checker_specials) : s.type = d.type /\ s.key = key}

\* C24 as stated: an identifier is accepted as a special value only when a
\* special of the type of the statement and the key of the property that
\* hold it lists the identifier; and after a pass without errors every
\* identifier held by a property with a special is one of the values of
\* that special.
C24_SpecialOfOwnProperty ==
  /\ pc = "registry" =>
       \A i \in 1..Len(TopLevel) : \A j \in 1..Len(TopLevel[i].pairs) :
         (/\ TopLevel[i].pairs[j].values[1].ident # Nil
          /\ checker_validate_special(TopLevel, TopLevel[i],
                                      TopLevel[i].pairs[j].values[1].ident) # 0)
           => \E s \in RefSpecials(TopLevel[i], TopLevel[i].pairs[j].key) :
                TopLevel[i].pairs[j].values[1].ident \in Range(s.value)
  /\ Succeeded =>
       \A i \in 1..Len(TopLevel) : \A j \in 1..Len(TopLevel[i].pairs) :
         \A s \in RefSpecials(TopLevel[i], TopLevel[i].pairs[j].key) :
           TopLevel[i].pairs[j].values[1].ident # Nil
             => TopLevel[i].pairs[j].values[1].ident \in Range(s.value)

-----------------------------------------------------------------------------
(* The chains of pairs and their release.                                  *)

\* the statements of the template bodies
BodyStatements ==
  UNION {Range(subcircuit_root[i].sub) : i \in 1..Len(subcircuit_root)}

\* the definitions that the program still holds
HeldDefinitions ==
  Range(definition_root) \cup Range(subcircuit_root) \cup BodyStatements

\* the statement of a template body that a copy was made from
IsCopyOf(d, t, b) ==
  /\ d.subcircuit = t.instance
  /\ d.type = b.type
  /\ d.chain = b.chain
  /\ d.pairs = b.pairs

\* C25: every statement that the expansion has put into the list is marked
\* as a copy and holds the chain of pairs of the statement of the template
\* body it was copied from; from the expansion to the end of
\* netlist_destroy no chain of pairs is released twice; and until
\* netlist_checker has returned no definition that the program holds has a
\* chain that was released.
C25_PairsReleasedOnce ==
  /\ Succeeded =>
       \A d \in Range(definition_root) :
         \/ d.copy = 0 /\ Len(d.chain) = 1
                       /\ Shape(d) = Shape(input[d.chain[1]])
         \/ /\ d.copy = 1
            /\ \E t \in Range(subcircuit_root) : \E b \in Range(t.sub) :
                 IsCopyOf(d, t, b)
  /\ \A i, j \in 1..Len(released) : released[i] = released[j] => i = j
  /\ pc # "destroyed" =>
       \A d \in HeldDefinitions :
         d.pairs # <<>> => d.chain \notin Range(released)

\* netlist_destroy has come to its end after a pass that expanded two
\* instances of one template: the chains of the two Sub statements were
\* released by the expansion, the chain of a statement of the template
\* body, shared by two copies, by netlist_destroy
C25_Witness ==
  /\ pc = "destroyed"
  /\ result = <<0>>
  /\ \E i, j \in 1..Len(input) :
       /\ i < j
       /\ input[i].type = "Sub" /\ input[j].type = "Sub"
       /\ RefType(input[i]) = RefType(input[j])
       /\ <<i>> \in Range(released) /\ <<j>> \in Range(released)
       /\ \E c \in Range(released) :
            /\ Len(c) = 2
            /\ input[c[1]].instance = RefType(input[i])

-----------------------------------------------------------------------------
(* The templates after the expansion.                                      *)

\* no node of a statement of a template body carries a translation
NoTranslation ==
  \A d \in BodyStatements : \A k \in 1..Len(d.nodes) :
    d.nodes[k].xlate = Nil /\ d.nodes[k].xlatenr = 0

\* C26: the expansion leaves the list of templates as it was: every
\* template has the body statements, node names and formal nodes it had
\* before, and when checker_expand_subcircuits has returned no node of a
\* statement of a template body carries a translation.
C26_TemplatesUnchanged ==
  /\ [](pc \in {"return", "done"} => NoTranslation)
  /\ [][pc = "expand" => subcircuit_root' = subcircuit_root]_vars

\* the expansion has returned after a pass in which a template with a
\* formal node was instantiated twice, one of them through another template
C26_Witness ==
  /\ pc = "return"
  /\ errors = 0
  /\ \E t \in Range(subcircuit_root) :
       /\ Len(t.nodes) >= 1
       /\ \E s \in SubsOf(TopLevel) : RefType(s) = t.instance
       /\ \E u \in Range(subcircuit_root) :
            /\ \E s \in SubsOf(u.sub) : RefType(s) = t.instance
            /\ \E s \in SubsOf(TopLevel) : RefType(s) = u.instance

-----------------------------------------------------------------------------
(* A sweep without a type.                                                 *)

\* C27 as stated: for an SW, AC or SP action that gives no identifier as
\* Type, checker_validate_lists comes to its end without reading a value
\* that is not there and counts no error for the properties of that
\* action, and netlist_checker goes on to its end.
C27_UntypedSweepPasses ==
  input \in UntypedInputs =>
    /\ pc # "crashed"
    /\ (pc = "bodies" /\ idx > Len(subcircuit_root)) =>
         /\ ~checker_validate_lists(definition_root).crash
         /\ checker_validate_lists(definition_root).errors = 0

-----------------------------------------------------------------------------
(* What the expansion can rely on.                                         *)

\* the Sub statements of the global netlist and of all template bodies
HeldSubs == SubsOf(definition_root) \cup {d \in BodyStatements : d.type = "Sub"}

\* the translations of nodes that the expansion of the list does
Translations(root) ==
  {w \in Range(ExpandWrites(root)) : ~w.cleanup}

\* C28: whenever the expansion runs, every Sub statement of the global
\* netlist and of every template body, instantiated or not, names a
\* template of the list of templates with as many formal nodes as the Sub
\* statement has nodes, and no template reaches itself through Sub
\* statements; so every translation of nodes that the expansion does finds
\* its template and an instance with as many nodes as the template has
\* formal nodes.
C28_ExpansionPreconditions ==
  (pc = "expand" /\ errors = 0) =>
    /\ \A d \in HeldSubs :
         /\ checker_get_subcircuit(d).type # Nil
         /\ RefType(d) \in TemplateNames
         /\ checker_count_nodes(d)
              = checker_count_nodes(checker_get_subcircuit(d))
    /\ ~Cyclic
    /\ \A w \in Translations(definition_root) :
         /\ checker_find_subcircuit(w.template).type # Nil
         /\ Len(w.inst.nodes)
              = Len(checker_find_subcircuit(w.template).nodes)

\* the expansion is about to run on a netlist with a template that no
\* statement instantiates and whose body holds a Sub statement, and with
\* an instance that is expanded through two levels
C28_Witness ==
  /\ pc = "expand"
  /\ errors = 0
  /\ \E t \in Range(subcircuit_root) :
       /\ SubsOf(t.sub) # {}
       /\ \A d \in HeldSubs : RefType(d) # t.instance
  /\ \E w \in Translations(definition_root) : w.inst \notin Range(definition_root)

-----------------------------------------------------------------------------
(* A Sub statement that names no template.                                 *)

\* a Sub statement of a template body names a type that is no template
RefUnknownInBody ==
  \E t \in TemplateNames : \E s \in SubsOf(RefBody(t)) :
    RefType(s) \notin TemplateNames

\* C29 as stated: when a Sub statement of a template body names a type
\* that is no template, the cycle check does not go into it, every phase
\* of netlist_checker comes to its end, and netlist_checker returns
\* failure.
C29_UnknownTypeNotFollowed ==
  RefUnknownInBody =>
    /\ pc # "crashed"
    /\ pc \notin {"build", "root"} =>
         \A t \in Range(subcircuit_root) :
           ~checker_validate_sub_cycles(t, t.instance, <<>>).crash
    /\ Returned => result = <<-1>>

-----------------------------------------------------------------------------
(* Nodes left blank by an inner level of the expansion.                    *)

\* the copies an inner call of checker_copy_subcircuits hands back for the
\* Sub element sub of the body of template t (line 1182)
InnerCopies(t, sub) ==
  checker_copy_subcircuits(checker_get_subcircuit(sub), sub, <<t.instance>>)

\* the pending indices of the nodes those copies leave blank
PendingIndices(t, sub) ==
  UNION {{c.nodes[k].xlatenr :
            k \in {j \in 1..Len(c.nodes) : c.nodes[j].node = Nil}} :
         c \in Range(InnerCopies(t, sub))}

\* the positions of the nodes of def that reach gnd, in the body or through
\* the ports of every level of the chain
GroundNodes(chain, def) ==
  {k \in 1..Len(def.nodes) : RefNode(chain, def.nodes[k].node) = "gnd"}

\* C30: after a successful pass no node of the flattened list is blank, the
\* pending index of every node an inner level leaves blank is between 1 and
\* the number of nodes of the enclosing Sub statement, and every node that
\* reaches gnd, in the body or through the ports of any number of levels,
\* is gnd in a copy of its element, in every copy over names without '.'.
C30_NoBlankNodes ==
  Succeeded =>
    /\ \A d \in Range(definition_root) : \A k \in 1..Len(d.nodes) :
         d.nodes[k].node # Nil
    /\ \A t \in Range(subcircuit_root) : \A sub \in SubsOf(t.sub) :
         PendingIndices(t, sub) \subseteq 1..Len(sub.nodes)
    /\ \A chain \in RefChains : \A def \in Elements(chain) :
         \E d \in CopiesOf(chain, def) : \A k \in GroundNodes(chain, def) :
           d.nodes[k].node = "gnd"
    /\ NoDots =>
         \A chain \in RefChains : \A def \in Elements(chain) :
           \A d \in CopiesOf(chain, def) : \A k \in GroundNodes(chain, def) :
             d.nodes[k].node = "gnd"

\* the first node of the resistor of Leaf was left blank by two inner
\* levels and is gnd, the argument of the top-level instance, in the end
C30_Witness ==
  /\ Succeeded
  /\ \E chain \in RefChains :
       /\ Len(chain) = 3
       /\ chain[1].nodes[2].node = "gnd"
       /\ \E def \in Elements(chain) : \E d \in CopiesOf(chain, def) :
            /\ IsPort(chain, def.nodes[1].node)
            /\ 1 \in GroundNodes(chain, def)
            /\ d.nodes[1].node = "gnd"
       /\ \E t \in Range(subcircuit_root) : \E sub \in SubsOf(t.sub) :
            PendingIndices(t, sub) # {}

====
